---- MODULE Spec2Model ----
(***************************************************************************)
(* State-machine model of the appointment scheduler back end               *)
(* (src/appointment-scheduler/backend): the provider directory, the        *)
(* CSV-backed schedule store, the appointment service, the appointment     *)
(* endpoint, the conversation manager and the conversation orchestrator.   *)
(*                                                                         *)
(* Conventions.  A Python str that the code takes apart (time slots, the   *)
(* time_slots column of the CSV file) is a sequence of one-character       *)
(* strings, so that join/split/strip/int() are computed and not assumed.   *)
(* A date "YYYY-MM-DD" is the number YYYYMMDD (the order of the fixed      *)
(* width strings is the order of the numbers).  A rating is in tenths.     *)
(* Python None is the string "None" where the value is otherwise a str,    *)
(* and an Optional object is <<>> (None) or <<object>>.                    *)
(***************************************************************************)
EXTENDS Integers, Sequences, FiniteSets, TLC

VARIABLES
    SCHEDULES_DB,      \* schedules.py: provider_id -> list of Schedule
    CSV_FILE,          \* content of schedules.csv: list of rows
    APPOINTMENTS_DB,   \* appointment_service.py: id -> Appointment
    llm_client,        \* api/conversation.py: whether the LLM client could be built
    conversations,     \* conversation_manager.conversations: id -> conversation
    reloaded,          \* history: whether clear_schedule_cache has been called
    in_flight,         \* the requests the server is handling: id -> position and locals of the handler
    recording,         \* appointment_voice.py: the locals of the record_audio call that is running
    last               \* the last call: its arguments and what it returned

vars == <<SCHEDULES_DB, CSV_FILE, APPOINTMENTS_DB, llm_client, conversations, reloaded, in_flight, recording, last>>

None == "None"

(***************************** bounds **************************************)
MaxAppointments == 2
MaxConversations == 2
MaxTurns == 2
MaxToolCalls == 2
MaxMessages == 2
MaxKeywords == 2
MaxProviders == 3
MaxResults == 3
MaxRequests == 2

(***************************** text ****************************************)
Range(s) == {s[i] : i \in 1..Len(s)}

Min(S) == CHOOSE x \in S : \A y \in S : x <= y

\* list.remove(x): drops the first occurrence of x
RemoveFirst(s, x) ==
    LET i == Min({j \in 1..Len(s) : s[j] = x})
    IN  SubSeq(s, 1, i - 1) \o SubSeq(s, i + 1, Len(s))

\* str.split(sep): the fields between the separators; "" splits to [""]
RECURSIVE SplitFrom(_, _, _, _)
SplitFrom(s, sep, i, cur) ==
    IF i > Len(s) THEN <<cur>>
    ELSE IF s[i] = sep THEN <<cur>> \o SplitFrom(s, sep, i + 1, <<>>)
    ELSE SplitFrom(s, sep, i + 1, Append(cur, s[i]))

Split(s, sep) == SplitFrom(s, sep, 1, <<>>)

\* sep.join(list)
RECURSIVE Join(_, _)
Join(list, sep) ==
    IF list = <<>> THEN <<>>
    ELSE IF Len(list) = 1 THEN list[1]
    ELSE list[1] \o <<sep>> \o Join(Tail(list), sep)

\* str.strip()
RECURSIVE Strip(_)
Strip(s) ==
    IF s = <<>> THEN s
    ELSE IF s[1] = " " THEN Strip(Tail(s))
    ELSE IF s[Len(s)] = " " THEN Strip(SubSeq(s, 1, Len(s) - 1))
    ELSE s

Digits == <<"0", "1", "2", "3", "4", "5", "6", "7", "8", "9">>

DigitValue(c) == (CHOOSE i \in 1..10 : Digits[i] = c) - 1

\* whether int(s) succeeds (an unsigned decimal; "" raises ValueError)
IsInt(s) == s # <<>> /\ \A i \in 1..Len(s) : s[i] \in Range(Digits)

RECURSIVE IntOf(_)
IntOf(s) == IF s = <<>> THEN 0 ELSE 10 * IntOf(SubSeq(s, 1, Len(s) - 1)) + DigitValue(s[Len(s)])

\* datetime.strptime(time, "%H:%M") succeeds
IsTime(s) ==
    LET f == Split(s, ":")
    IN  /\ Len(f) = 2
        /\ IsInt(f[1]) /\ Len(f[1]) <= 2 /\ IntOf(f[1]) <= 23
        /\ IsInt(f[2]) /\ Len(f[2]) <= 2 /\ IntOf(f[2]) <= 59

UPPERCASE == <<"A", "B", "C", "D", "E", "F", "G", "H", "I", "J", "K", "L", "M", "N", "O", "P", "Q", "R", "S", "T", "U", "V", "W", "X", "Y", "Z">>

LOWERCASE == <<"a", "b", "c", "d", "e", "f", "g", "h", "i", "j", "k", "l", "m", "n", "o", "p", "q", "r", "s", "t", "u", "v", "w", "x", "y", "z">>

LowerChar(c) ==
    IF c \in Range(UPPERCASE)
    THEN LOWERCASE[CHOOSE i \in 1..Len(UPPERCASE) : UPPERCASE[i] = c]
    ELSE c

\* str.lower()
Lower(s) == [i \in 1..Len(s) |-> LowerChar(s[i])]

\* sub in s
Contains(s, sub) == \E i \in 0..(Len(s) - Len(sub)) : SubSeq(s, i + 1, i + Len(sub)) = sub

Max(S) == CHOOSE x \in S : \A y \in S : x >= y

(***************************** fixture *************************************)
T0900 == <<"0", "9", ":", "0", "0">>
T1400 == <<"1", "4", ":", "0", "0">>
Empty == <<>>

D0106 == 20260106
D0115 == 20260115

\* schedules.csv as shipped: one row per provider and date, distinct
\* well-formed slots; the rows of a provider need not be in date order, and a
\* row may belong to an id the provider directory does not hold.
CSV_FIXTURE ==
    << [provider_id |-> "p001", date |-> D0115, time_slots |-> Join(<<T0900, T1400>>, ",")],
       [provider_id |-> "p001", date |-> D0106, time_slots |-> Join(<<T0900>>, ",")],
       [provider_id |-> "p999", date |-> D0106, time_slots |-> Join(<<T1400>>, ",")] >>

\* sorted() on provider ids: the ids in str order
ID_ORDER == <<"p001", "p002", "p003", "p004", "p005", "p006", "p007", "p008", "p009", "p010", "p999">>

IdRank(id) == CHOOSE i \in 1..Len(ID_ORDER) : ID_ORDER[i] = id

(***************************** models/constants.py *************************)
INITIAL == "initial"
ISSUE_IDENTIFIED == "issue_identified"
PROVIDER_MATCHED == "provider_matched"
AVAILABILITY_CHECKED == "availability_checked"
APPOINTMENT_CONFIRMED == "appointment_confirmed"

ConversationState ==
    {INITIAL, ISSUE_IDENTIFIED, PROVIDER_MATCHED, AVAILABILITY_CHECKED, APPOINTMENT_CONFIRMED}

GENERAL_PRACTITIONER == "General Practitioner"

\* the keyword table, in the order of the dict
ISSUE_TO_SPECIALTY ==
    << [keyword |-> <<"r", "a", "s", "h">>, specialty |-> "Dermatologist"],
       [keyword |-> <<"a", "c", "n", "e">>, specialty |-> "Dermatologist"],
       [keyword |-> <<"e", "c", "z", "e", "m", "a">>, specialty |-> "Dermatologist"],
       [keyword |-> <<"p", "s", "o", "r", "i", "a", "s", "i", "s">>, specialty |-> "Dermatologist"],
       [keyword |-> <<"s", "k", "i", "n">>, specialty |-> "Dermatologist"],
       [keyword |-> <<"m", "o", "l", "e">>, specialty |-> "Dermatologist"],
       [keyword |-> <<"c", "h", "e", "s", "t", " ", "p", "a", "i", "n">>, specialty |-> "Cardiologist"],
       [keyword |-> <<"h", "e", "a", "r", "t">>, specialty |-> "Cardiologist"],
       [keyword |-> <<"p", "a", "l", "p", "i", "t", "a", "t", "i", "o", "n", "s">>, specialty |-> "Cardiologist"],
       [keyword |-> <<"b", "l", "o", "o", "d", " ", "p", "r", "e", "s", "s", "u", "r", "e">>, specialty |-> "Cardiologist"],
       [keyword |-> <<"h", "e", "a", "d", "a", "c", "h", "e">>, specialty |-> "Neurologist"],
       [keyword |-> <<"m", "i", "g", "r", "a", "i", "n", "e">>, specialty |-> "Neurologist"],
       [keyword |-> <<"s", "e", "i", "z", "u", "r", "e">>, specialty |-> "Neurologist"],
       [keyword |-> <<"d", "i", "z", "z", "i", "n", "e", "s", "s">>, specialty |-> "Neurologist"],
       [keyword |-> <<"n", "u", "m", "b", "n", "e", "s", "s">>, specialty |-> "Neurologist"],
       [keyword |-> <<"b", "a", "c", "k", " ", "p", "a", "i", "n">>, specialty |-> "Orthopedist"],
       [keyword |-> <<"b", "a", "c", "k">>, specialty |-> "Orthopedist"],
       [keyword |-> <<"j", "o", "i", "n", "t", " ", "p", "a", "i", "n">>, specialty |-> "Orthopedist"],
       [keyword |-> <<"j", "o", "i", "n", "t">>, specialty |-> "Orthopedist"],
       [keyword |-> <<"f", "r", "a", "c", "t", "u", "r", "e">>, specialty |-> "Orthopedist"],
       [keyword |-> <<"a", "r", "t", "h", "r", "i", "t", "i", "s">>, specialty |-> "Orthopedist"],
       [keyword |-> <<"s", "p", "r", "a", "i", "n">>, specialty |-> "Orthopedist"],
       [keyword |-> <<"k", "n", "e", "e">>, specialty |-> "Orthopedist"],
       [keyword |-> <<"s", "h", "o", "u", "l", "d", "e", "r">>, specialty |-> "Orthopedist"],
       [keyword |-> <<"c", "h", "i", "l", "d">>, specialty |-> "Pediatrician"],
       [keyword |-> <<"b", "a", "b", "y">>, specialty |-> "Pediatrician"],
       [keyword |-> <<"i", "n", "f", "a", "n", "t">>, specialty |-> "Pediatrician"],
       [keyword |-> <<"d", "e", "p", "r", "e", "s", "s", "i", "o", "n">>, specialty |-> "Psychiatrist"],
       [keyword |-> <<"a", "n", "x", "i", "e", "t", "y">>, specialty |-> "Psychiatrist"],
       [keyword |-> <<"p", "a", "n", "i", "c">>, specialty |-> "Psychiatrist"],
       [keyword |-> <<"s", "t", "r", "e", "s", "s">>, specialty |-> "Psychiatrist"],
       [keyword |-> <<"v", "i", "s", "i", "o", "n">>, specialty |-> "Ophthalmologist"],
       [keyword |-> <<"e", "y", "e">>, specialty |-> "Ophthalmologist"],
       [keyword |-> <<"b", "l", "u", "r", "r", "y">>, specialty |-> "Ophthalmologist"],
       [keyword |-> <<"e", "a", "r">>, specialty |-> "ENT Specialist"],
       [keyword |-> <<"t", "h", "r", "o", "a", "t">>, specialty |-> "ENT Specialist"],
       [keyword |-> <<"n", "o", "s", "e">>, specialty |-> "ENT Specialist"],
       [keyword |-> <<"s", "i", "n", "u", "s">>, specialty |-> "ENT Specialist"],
       [keyword |-> <<"h", "e", "a", "r", "i", "n", "g">>, specialty |-> "ENT Specialist"] >>

(***************************** providers.py ********************************)
PROVIDERS_DB ==
    << [id |-> "p001", name |-> "Dr. Sarah Johnson", specialty |-> "Dermatologist",
        experience_years |-> 15, rating |-> 48, location |-> "123 Medical Plaza, Suite 200"],
       [id |-> "p002", name |-> "Dr. Michael Chen", specialty |-> "Dermatologist",
        experience_years |-> 8, rating |-> 46, location |-> "456 Healthcare Center, Floor 3"],
       [id |-> "p003", name |-> "Dr. Emily Rodriguez", specialty |-> "Cardiologist",
        experience_years |-> 20, rating |-> 49, location |-> "789 Heart Institute, Building A"],
       [id |-> "p004", name |-> "Dr. David Kim", specialty |-> "Neurologist",
        experience_years |-> 12, rating |-> 47, location |-> "321 Neurology Center, 2nd Floor"],
       [id |-> "p005", name |-> "Dr. Jennifer Williams", specialty |-> "Orthopedist",
        experience_years |-> 18, rating |-> 48, location |-> "654 Orthopedic Clinic, Suite 100"],
       [id |-> "p006", name |-> "Dr. Robert Taylor", specialty |-> "General Practitioner",
        experience_years |-> 25, rating |-> 45, location |-> "987 Family Health Center"],
       [id |-> "p007", name |-> "Dr. Lisa Anderson", specialty |-> "Pediatrician",
        experience_years |-> 14, rating |-> 49, location |-> "147 Children's Medical Center"],
       [id |-> "p008", name |-> "Dr. James Martinez", specialty |-> "Psychiatrist",
        experience_years |-> 16, rating |-> 47, location |-> "258 Mental Health Associates"],
       [id |-> "p009", name |-> "Dr. Patricia Brown", specialty |-> "Ophthalmologist",
        experience_years |-> 22, rating |-> 48, location |-> "369 Vision Care Center"],
       [id |-> "p010", name |-> "Dr. Christopher Lee", specialty |-> "ENT Specialist",
        experience_years |-> 10, rating |-> 46, location |-> "741 ENT Clinic, Suite 300"] >>

\* the first provider with that id: <<provider>>, or <<>> for None
get_provider_by_id(provider_id) ==
    LET hits == {i \in 1..Len(PROVIDERS_DB) : PROVIDERS_DB[i].id = provider_id}
    IN  IF hits = {} THEN <<>> ELSE <<PROVIDERS_DB[Min(hits)]>>

get_providers_by_specialty(specialty) ==
    SelectSeq(PROVIDERS_DB, LAMBDA p : p.specialty = specialty)

\* max(providers, key=(rating, experience_years)): the first provider of the
\* list that no other one beats; <<>> (None) when the specialty has none
get_best_provider_for_specialty(specialty) ==
    LET providers == get_providers_by_specialty(specialty)
        Less(a, b) == \/ a.rating < b.rating
                      \/ a.rating = b.rating /\ a.experience_years < b.experience_years
        best == {i \in 1..Len(providers) :
                   \A j \in 1..Len(providers) : ~Less(providers[i], providers[j])}
    IN  IF providers = <<>> THEN <<>> ELSE <<providers[Min(best)]>>

(***************************** llm/provider_matcher.py *********************)
\* the confidence is in tenths; match_reason keeps what the text is built
\* from, the keyword found (<<>> when none) and the specialty resolved
\* a matcher that keeps the last keyword of the table found in the text
match_provider_for_issue_last(health_issue) ==
    LET health_issue_lower == Lower(health_issue)
        hits == {i \in 1..Len(ISSUE_TO_SPECIALTY) :
                   Contains(health_issue_lower, ISSUE_TO_SPECIALTY[i].keyword)}
        matched_specialty == IF hits = {} THEN GENERAL_PRACTITIONER
                             ELSE ISSUE_TO_SPECIALTY[Max(hits)].specialty
        match_keyword == IF hits = {} THEN <<>> ELSE <<ISSUE_TO_SPECIALTY[Max(hits)].keyword>>
        confidence == IF hits = {} THEN 6 ELSE 9
        provider == get_best_provider_for_specialty(matched_specialty)
    IN  IF provider = <<>> THEN <<>>
        ELSE << [provider_id |-> provider[1].id,
                 provider_name |-> provider[1].name,
                 specialty |-> provider[1].specialty,
                 match_reason |-> [keyword |-> match_keyword, specialty |-> matched_specialty],
                 confidence |-> confidence] >>

\* a matcher that looks for the keywords in the text as it was typed
match_provider_for_issue_cased(health_issue) ==
    LET hits == {i \in 1..Len(ISSUE_TO_SPECIALTY) :
                   Contains(health_issue, ISSUE_TO_SPECIALTY[i].keyword)}
        matched_specialty == IF hits = {} THEN GENERAL_PRACTITIONER
                             ELSE ISSUE_TO_SPECIALTY[Min(hits)].specialty
        match_keyword == IF hits = {} THEN <<>> ELSE <<ISSUE_TO_SPECIALTY[Min(hits)].keyword>>
        confidence == IF hits = {} THEN 6 ELSE 9
        provider == get_best_provider_for_specialty(matched_specialty)
    IN  IF provider = <<>> THEN <<>>
        ELSE << [provider_id |-> provider[1].id,
                 provider_name |-> provider[1].name,
                 specialty |-> provider[1].specialty,
                 match_reason |-> [keyword |-> match_keyword, specialty |-> matched_specialty],
                 confidence |-> confidence] >>

match_provider_for_issue(health_issue) ==
    LET health_issue_lower == Lower(health_issue)
        hits == {i \in 1..Len(ISSUE_TO_SPECIALTY) :
                   Contains(health_issue_lower, ISSUE_TO_SPECIALTY[i].keyword)}
        matched_specialty == IF hits = {} THEN GENERAL_PRACTITIONER
                             ELSE ISSUE_TO_SPECIALTY[Min(hits)].specialty
        match_keyword == IF hits = {} THEN <<>> ELSE <<ISSUE_TO_SPECIALTY[Min(hits)].keyword>>
        confidence == IF hits = {} THEN 6 ELSE 9
        provider == get_best_provider_for_specialty(matched_specialty)
    IN  IF provider = <<>> THEN <<>>
        ELSE << [provider_id |-> provider[1].id,
                 provider_name |-> provider[1].name,
                 specialty |-> provider[1].specialty,
                 match_reason |-> [keyword |-> match_keyword, specialty |-> matched_specialty],
                 confidence |-> confidence] >>

(***************************** schedules.py ********************************)
\* the rows of the file grouped by provider_id, in file order
RECURSIVE LoadRows(_, _)
LoadRows(rows, dict) ==
    IF rows = <<>> THEN dict
    ELSE LET row == rows[1]
             time_slots == [i \in 1..Len(Split(row.time_slots, ",")) |->
                              Strip(Split(row.time_slots, ",")[i])]
             schedule == [provider_id |-> row.provider_id, date |-> row.date,
                          available_slots |-> time_slots]
             d1 == IF schedule.provider_id \in DOMAIN dict THEN dict
                   ELSE [p \in DOMAIN dict \cup {schedule.provider_id} |->
                           IF p \in DOMAIN dict THEN dict[p] ELSE <<>>]
         IN  LoadRows(Tail(rows),
                      [d1 EXCEPT ![schedule.provider_id] = Append(@, schedule)])

load_schedules_from_csv(file) == LoadRows(file, <<>>)

get_provider_schedule(db, provider_id) ==
    IF provider_id \in DOMAIN db THEN db[provider_id] ELSE <<>>

get_available_slots(db, provider_id, date) ==
    LET schedules == get_provider_schedule(db, provider_id)
        hits == {i \in 1..Len(schedules) : schedules[i].date = date}
    IN  IF hits = {} THEN <<>> ELSE schedules[Min(hits)].available_slots

\* sorted(schedules, key=date): a stable insertion sort
RECURSIVE SortByDate(_)
SortByDate(s) ==
    IF s = <<>> THEN s
    ELSE LET rest == SortByDate(SubSeq(s, 1, Len(s) - 1))
             x == s[Len(s)]
             k == Cardinality({i \in 1..Len(rest) : rest[i].date <= x.date})
         IN  SubSeq(rest, 1, k) \o <<x>> \o SubSeq(rest, k + 1, Len(rest))

RECURSIVE RowsOf(_, _)
RowsOf(db, ids) ==
    IF ids = {} THEN <<>>
    ELSE LET p == CHOOSE x \in ids : \A y \in ids : IdRank(x) <= IdRank(y)
             sorted == SortByDate(db[p])
         IN  [i \in 1..Len(sorted) |->
                [provider_id |-> sorted[i].provider_id, date |-> sorted[i].date,
                 time_slots |-> Join(sorted[i].available_slots, ",")]]
             \o RowsOf(db, ids \ {p})

\* The outcomes of one write of the file.  "ok": every row is written;
\* "open_fails": open() raises and the file keeps its content;
\* "write_fails": a write raises after open(.., 'w') truncated the file, and
\* no row reaches the file.
SaveOutcomes == {"ok", "open_fails", "write_fails"}

save_schedules_to_csv(db, file, io) ==
    IF io = "ok" THEN [ok |-> TRUE, file |-> RowsOf(db, DOMAIN db)]
    ELSE IF io = "open_fails" THEN [ok |-> FALSE, file |-> file]
    ELSE [ok |-> FALSE, file |-> <<>>]

\* a book_slot that undoes the booking when the file cannot be written
book_slot_rollback(db, file, provider_id, date, time, io) ==
    IF provider_id \notin DOMAIN db
    THEN [ok |-> FALSE, db |-> db, file |-> file, saves |-> 0, saved |-> FALSE]
    ELSE LET schedules == db[provider_id]
             hits == {i \in 1..Len(schedules) :
                        schedules[i].date = date /\ time \in Range(schedules[i].available_slots)}
         IN  IF hits = {}
             THEN [ok |-> FALSE, db |-> db, file |-> file, saves |-> 0, saved |-> FALSE]
             ELSE LET db1 == [db EXCEPT ![provider_id][Min(hits)].available_slots =
                                           RemoveFirst(@, time)]
                      save_result == save_schedules_to_csv(db1, file, io)
                  IN  IF save_result.ok
                      THEN [ok |-> TRUE, db |-> db1, file |-> save_result.file,
                            saves |-> 1, saved |-> TRUE]
                      ELSE [ok |-> FALSE, db |-> db, file |-> save_result.file,
                            saves |-> 1, saved |-> FALSE]

\* a book_slot that reports the booking and leaves the slot in the list
book_slot_keep(db, file, provider_id, date, time, io) ==
    IF provider_id \notin DOMAIN db
    THEN [ok |-> FALSE, db |-> db, file |-> file, saves |-> 0, saved |-> FALSE]
    ELSE LET schedules == db[provider_id]
             hits == {i \in 1..Len(schedules) :
                        schedules[i].date = date /\ time \in Range(schedules[i].available_slots)}
         IN  IF hits = {}
             THEN [ok |-> FALSE, db |-> db, file |-> file, saves |-> 0, saved |-> FALSE]
             ELSE LET save_result == save_schedules_to_csv(db, file, io)
                  IN  [ok |-> TRUE, db |-> db, file |-> save_result.file,
                       saves |-> 1, saved |-> save_result.ok]

\* a book_slot that empties the whole entry of the date it books in
book_slot_clear(db, file, provider_id, date, time, io) ==
    IF provider_id \notin DOMAIN db
    THEN [ok |-> FALSE, db |-> db, file |-> file, saves |-> 0, saved |-> FALSE]
    ELSE LET schedules == db[provider_id]
             hits == {i \in 1..Len(schedules) :
                        schedules[i].date = date /\ time \in Range(schedules[i].available_slots)}
         IN  IF hits = {}
             THEN [ok |-> FALSE, db |-> db, file |-> file, saves |-> 0, saved |-> FALSE]
             ELSE LET db1 == [db EXCEPT ![provider_id][Min(hits)].available_slots = <<>>]
                      save_result == save_schedules_to_csv(db1, file, io)
                  IN  [ok |-> TRUE, db |-> db1, file |-> save_result.file,
                       saves |-> 1, saved |-> save_result.ok]

\* a book_slot that looks at the date only: it takes the first slot of the
\* entry when the time asked for is not listed
book_slot_date_only(db, file, provider_id, date, time, io) ==
    IF provider_id \notin DOMAIN db
    THEN [ok |-> FALSE, db |-> db, file |-> file, saves |-> 0, saved |-> FALSE]
    ELSE LET schedules == db[provider_id]
             hits == {i \in 1..Len(schedules) :
                        schedules[i].date = date /\ schedules[i].available_slots # <<>>}
         IN  IF hits = {}
             THEN [ok |-> FALSE, db |-> db, file |-> file, saves |-> 0, saved |-> FALSE]
             ELSE LET slots == schedules[Min(hits)].available_slots
                      taken == IF time \in Range(slots) THEN time ELSE slots[1]
                      db1 == [db EXCEPT ![provider_id][Min(hits)].available_slots =
                                           RemoveFirst(@, taken)]
                      save_result == save_schedules_to_csv(db1, file, io)
                  IN  [ok |-> TRUE, db |-> db1, file |-> save_result.file,
                       saves |-> 1, saved |-> save_result.ok]

\* book_slot: the first entry of the provider with that date and that time
\* loses the time, the schedules are written back once, and the result is
\* True whatever the write did.  saves counts the writes attempted.
book_slot(db, file, provider_id, date, time, io) ==
    IF provider_id \notin DOMAIN db
    THEN [ok |-> FALSE, db |-> db, file |-> file, saves |-> 0, saved |-> FALSE]
    ELSE LET schedules == db[provider_id]
             hits == {i \in 1..Len(schedules) :
                        schedules[i].date = date /\ time \in Range(schedules[i].available_slots)}
         IN  IF hits = {}
             THEN [ok |-> FALSE, db |-> db, file |-> file, saves |-> 0, saved |-> FALSE]
             ELSE LET db1 == [db EXCEPT ![provider_id][Min(hits)].available_slots =
                                           RemoveFirst(@, time)]
                      save_result == save_schedules_to_csv(db1, file, io)
                  IN  [ok |-> TRUE, db |-> db1, file |-> save_result.file,
                       saves |-> 1, saved |-> save_result.ok]

(***************************** appointment_service.py *********************)
\* a create_appointment that stores the record whatever book_slot answered
create_appointment_unchecked(db, file, apps, appointment_data, appointment_id, io) ==
    LET provider == get_provider_by_id(appointment_data.provider_id)
        none == [appointment |-> <<>>, db |-> db, file |-> file, apps |-> apps,
                 saves |-> 0, saved |-> FALSE]
    IN  IF provider = <<>> THEN none
        ELSE LET b == book_slot(db, file, appointment_data.provider_id,
                                appointment_data.date, appointment_data.time, io)
                 appointment ==
                     [id |-> Cardinality(DOMAIN apps) + 1,
                      patient_name |-> appointment_data.patient_name,
                      provider_id |-> appointment_data.provider_id,
                      provider_name |-> provider[1].name,
                      date |-> appointment_data.date,
                      time |-> appointment_data.time,
                      location |-> provider[1].location,
                      reason |-> appointment_data.reason]
             IN  [appointment |-> <<appointment>>, db |-> b.db, file |-> b.file,
                  apps |-> [i \in DOMAIN apps \cup {appointment.id} |->
                              IF i = appointment.id THEN appointment ELSE apps[i]],
                  saves |-> b.saves, saved |-> b.saved]

\* a create_appointment that books the slot before it looks the provider up
create_appointment_book_first(db, file, apps, appointment_data, appointment_id, io) ==
    LET provider == get_provider_by_id(appointment_data.provider_id)
        b == book_slot(db, file, appointment_data.provider_id,
                       appointment_data.date, appointment_data.time, io)
    IN  IF provider = <<>> \/ ~b.ok
        THEN [appointment |-> <<>>, db |-> b.db, file |-> b.file, apps |-> apps,
              saves |-> b.saves, saved |-> b.saved]
        ELSE LET appointment ==
                     [id |-> appointment_id,
                      patient_name |-> appointment_data.patient_name,
                      provider_id |-> appointment_data.provider_id,
                      provider_name |-> provider[1].name,
                      date |-> appointment_data.date,
                      time |-> appointment_data.time,
                      location |-> provider[1].location,
                      reason |-> appointment_data.reason]
             IN  [appointment |-> <<appointment>>, db |-> b.db, file |-> b.file,
                  apps |-> [i \in DOMAIN apps \cup {appointment_id} |->
                              IF i = appointment_id THEN appointment ELSE apps[i]],
                  saves |-> b.saves, saved |-> b.saved]

\* create_appointment(appointment_data), appointment_id the uuid4 drawn:
\* <<>> (None) when the provider is unknown or the slot cannot be booked
\* a create_appointment that keeps only the appointment it makes
create_appointment_alone(db, file, apps, appointment_data, appointment_id, io) ==
    LET provider == get_provider_by_id(appointment_data.provider_id)
        none == [appointment |-> <<>>, db |-> db, file |-> file, apps |-> apps,
                 saves |-> 0, saved |-> FALSE]
    IN  IF provider = <<>> THEN none
        ELSE LET b == book_slot(db, file, appointment_data.provider_id,
                                appointment_data.date, appointment_data.time, io)
             IN  IF ~b.ok THEN none
                 ELSE LET appointment ==
                            [id |-> appointment_id,
                             patient_name |-> appointment_data.patient_name,
                             provider_id |-> appointment_data.provider_id,
                             provider_name |-> provider[1].name,
                             date |-> appointment_data.date,
                             time |-> appointment_data.time,
                             location |-> provider[1].location,
                             reason |-> appointment_data.reason]
                      IN  [appointment |-> <<appointment>>, db |-> b.db, file |-> b.file,
                           apps |-> [i \in {appointment_id} |-> appointment],
                           saves |-> b.saves, saved |-> b.saved]

create_appointment(db, file, apps, appointment_data, appointment_id, io) ==
    LET provider == get_provider_by_id(appointment_data.provider_id)
        none == [appointment |-> <<>>, db |-> db, file |-> file, apps |-> apps,
                 saves |-> 0, saved |-> FALSE]
    IN  IF provider = <<>> THEN none
        ELSE LET b == book_slot(db, file, appointment_data.provider_id,
                                appointment_data.date, appointment_data.time, io)
             IN  IF ~b.ok THEN none
                 ELSE LET appointment ==
                            [id |-> appointment_id,
                             patient_name |-> appointment_data.patient_name,
                             provider_id |-> appointment_data.provider_id,
                             provider_name |-> provider[1].name,
                             date |-> appointment_data.date,
                             time |-> appointment_data.time,
                             location |-> provider[1].location,
                             reason |-> appointment_data.reason]
                      IN  [appointment |-> <<appointment>>, db |-> b.db, file |-> b.file,
                           apps |-> [i \in DOMAIN apps \cup {appointment_id} |->
                                       IF i = appointment_id THEN appointment ELSE apps[i]],
                           saves |-> b.saves, saved |-> b.saved]

\* generate_ics_file raises ValueError when strptime cannot parse the time
\* (the dates of the model are well formed)
generate_ics_file_raises(appointment) == ~IsTime(appointment.time)

get_appointment(apps, appointment_id) ==
    IF appointment_id \in DOMAIN apps THEN <<apps[appointment_id]>> ELSE <<>>

get_all_appointments(apps) == {apps[i] : i \in DOMAIN apps}

(***************************** api/appointments.py *************************)
\* a handler that leaves the provider check to create_appointment
create_new_appointment_no_404(db, file, apps, appointment_data, appointment_id, io) ==
    LET c == create_appointment(db, file, apps, appointment_data, appointment_id, io)
    IN  [status |-> IF c.appointment = <<>> THEN 400
                    ELSE IF generate_ics_file_raises(c.appointment[1]) THEN 500
                    ELSE 200,
         appointment |-> c.appointment, db |-> c.db, file |-> c.file, apps |-> c.apps,
         saves |-> c.saves, saved |-> c.saved]

\* POST /api/appointments/: the status answered and the state left behind
create_new_appointment(db, file, apps, appointment_data, appointment_id, io) ==
    IF get_provider_by_id(appointment_data.provider_id) = <<>>
    THEN [status |-> 404, appointment |-> <<>>, db |-> db, file |-> file, apps |-> apps,
          saves |-> 0, saved |-> FALSE]
    ELSE LET c == create_appointment(db, file, apps, appointment_data, appointment_id, io)
         IN  [status |-> IF c.appointment = <<>> THEN 400
                         ELSE IF generate_ics_file_raises(c.appointment[1]) THEN 500
                         ELSE 200,
              appointment |-> c.appointment, db |-> c.db, file |-> c.file, apps |-> c.apps,
              saves |-> c.saves, saved |-> c.saved]

\* GET /api/appointments/{appointment_id}
get_appointment_by_id(apps, appointment_id) ==
    LET appointment == get_appointment(apps, appointment_id)
    IN  IF appointment = <<>> THEN [status |-> 404, appointment |-> <<>>]
        ELSE [status |-> 200, appointment |-> appointment]

(***************************** services/schedule_service.py ****************)
\* A slot list held in a dict built from the schedules.  get_availability_summary
\* stores the list object of the Schedule itself, not a copy: Live(p, i) is the
\* list of entry i of provider p, which book_slot changes in place, and
\* Copy(slots) is a list of its own.
Live(provider_id, index) ==
    [live |-> TRUE, provider_id |-> provider_id, index |-> index, slots |-> <<>>]

Copy(slots) == [live |-> FALSE, provider_id |-> None, index |-> 0, slots |-> slots]

SlotsOf(db, entry) ==
    IF entry.live THEN db[entry.provider_id][entry.index].available_slots ELSE entry.slots

\* the dict as its content now: date -> list of slots
Content(db, availability) ==
    [date \in DOMAIN availability |-> SlotsOf(db, availability[date])]

\* every date of the provider whose slot list is not empty, bound to that
\* list (of the last such entry, were a date listed twice); days_ahead is
\* not used by get_provider_schedule
get_availability_summary(db, provider_id) ==
    LET schedules == get_provider_schedule(db, provider_id)
        shown == {i \in 1..Len(schedules) : schedules[i].available_slots # <<>>}
    IN  [date \in {schedules[i].date : i \in shown} |->
           Live(provider_id, Max({i \in shown : schedules[i].date = date}))]

\* whether int(slot.split(":")[0]) succeeds
HourParses(slot) == IsInt(Split(slot, ":")[1])

HourOf(slot) == IntOf(Split(slot, ":")[1])

\* the dates of a set in increasing order
RECURSIVE SortedDates(_)
SortedDates(dates) ==
    IF dates = {} THEN <<>> ELSE <<Min(dates)>> \o SortedDates(dates \ {Min(dates)})

\* format_availability_message raises ValueError when a slot has no hour
format_availability_message_raises(content) ==
    \E date \in DOMAIN content : \E i \in 1..Len(content[date]) : ~HourParses(content[date][i])

\* the message, as what it is built from: per date, in date order, the
\* morning and the afternoon slots
format_availability_message(content) ==
    LET dates == SortedDates(DOMAIN content)
    IN  [k \in 1..Len(dates) |->
           [date |-> dates[k],
            morning_slots |-> SelectSeq(content[dates[k]], LAMBDA s : HourOf(s) < 12),
            afternoon_slots |-> SelectSeq(content[dates[k]], LAMBDA s : HourOf(s) >= 12)]]

(***************************** llm/conversation_manager.py *****************)
\* Each operation takes the conversations map and answers the map it leaves;
\* raised is TRUE when the method raises ValueError.
\* a create_conversation that starts from an empty map
create_conversation_alone(convs, conversation_id) ==
    [c \in {conversation_id} |->
       [id |-> conversation_id, state |-> INITIAL, messages |-> <<>>, context |-> <<>>]]

create_conversation(convs, conversation_id) ==
    [c \in DOMAIN convs \cup {conversation_id} |->
       IF c = conversation_id
       THEN [id |-> conversation_id, state |-> INITIAL, messages |-> <<>>, context |-> <<>>]
       ELSE convs[c]]

\* an add_message that checks the id and stores nothing
add_message_unsaved(convs, conversation_id, role, content) ==
    [raised |-> conversation_id \notin DOMAIN convs, conversations |-> convs]

\* an add_message that puts the message first in the history
add_message_front(convs, conversation_id, role, content) ==
    IF conversation_id \notin DOMAIN convs
    THEN [raised |-> TRUE, conversations |-> convs]
    ELSE [raised |-> FALSE,
          conversations |-> [convs EXCEPT ![conversation_id].messages =
                                            <<[role |-> role, content |-> content]>> \o @]]

add_message(convs, conversation_id, role, content) ==
    IF conversation_id \notin DOMAIN convs
    THEN [raised |-> TRUE, conversations |-> convs]
    ELSE [raised |-> FALSE,
          conversations |-> [convs EXCEPT ![conversation_id].messages =
                                            Append(@, [role |-> role, content |-> content])]]

get_messages(convs, conversation_id) ==
    IF conversation_id \notin DOMAIN convs THEN <<>> ELSE convs[conversation_id].messages

get_state(convs, conversation_id) ==
    IF conversation_id \notin DOMAIN convs THEN INITIAL ELSE convs[conversation_id].state

\* the five states in the order of the normal flow
StateRank(state) ==
    CASE state = INITIAL -> 1
      [] state = ISSUE_IDENTIFIED -> 2
      [] state = PROVIDER_MATCHED -> 3
      [] state = AVAILABILITY_CHECKED -> 4
      [] state = APPOINTMENT_CONFIRMED -> 5

\* a set_state that refuses to go back
set_state_forward(convs, conversation_id, state) ==
    IF conversation_id \notin DOMAIN convs
    THEN [raised |-> TRUE, conversations |-> convs]
    ELSE IF StateRank(state) < StateRank(convs[conversation_id].state)
    THEN [raised |-> TRUE, conversations |-> convs]
    ELSE [raised |-> FALSE, conversations |-> [convs EXCEPT ![conversation_id].state = state]]

set_state(convs, conversation_id, state) ==
    IF conversation_id \notin DOMAIN convs
    THEN [raised |-> TRUE, conversations |-> convs]
    ELSE [raised |-> FALSE, conversations |-> [convs EXCEPT ![conversation_id].state = state]]

\* context[key] = value
Put(context, key, value) ==
    [k \in DOMAIN context \cup {key} |-> IF k = key THEN value ELSE context[k]]

\* an update_context that makes the conversation when there is none
update_context_creating(convs, conversation_id, key, value) ==
    [raised |-> FALSE,
     conversations |-> [c \in DOMAIN convs \cup {conversation_id} |->
                          IF c # conversation_id THEN convs[c]
                          ELSE IF c \in DOMAIN convs
                          THEN [convs[c] EXCEPT !.context = Put(@, key, value)]
                          ELSE [id |-> c, state |-> INITIAL, messages |-> <<>>,
                                context |-> Put(<<>>, key, value)]]]

update_context(convs, conversation_id, key, value) ==
    IF conversation_id \notin DOMAIN convs
    THEN [raised |-> TRUE, conversations |-> convs]
    ELSE [raised |-> FALSE,
          conversations |-> [convs EXCEPT ![conversation_id].context = Put(@, key, value)]]

\* get_context(conversation_id, key), key <<>> for None: <<>> is None
get_context(convs, conversation_id, key) ==
    IF conversation_id \notin DOMAIN convs THEN <<>>
    ELSE LET context == convs[conversation_id].context
         IN  IF key # <<>> /\ key[1] # ""
             THEN IF key[1] \in DOMAIN context THEN <<context[key[1]]>> ELSE <<>>
             ELSE <<context>>

\* the system prompt, as what varies in it: the state that selects the
\* closing paragraph and the provider name quoted in PROVIDER_MATCHED (the
\* date and the time of the call are left out)
get_system_prompt(convs, conversation_id) ==
    LET state == get_state(convs, conversation_id)
    IN  IF state = PROVIDER_MATCHED
        THEN LET context == get_context(convs, conversation_id, <<>>)[1]
             IN  [state |-> state,
                  provider_name |-> IF "provider_name" \in DOMAIN context
                                    THEN context["provider_name"] ELSE "the provider"]
        ELSE [state |-> state, provider_name |-> None]

(***************************** api/conversation.py *************************)
\* arguments.get(key): <<>> for None
Get(arguments, key) == IF key \in DOMAIN arguments THEN <<arguments[key]>> ELSE <<>>

\* What one execute_function call answers and leaves behind.  raised: the
\* call ends in an exception, named in result; saves: file writes attempted.
Outcome(raised, result, convs, db, file, apps, saves) ==
    [raised |-> raised, result |-> result, conversations |-> convs,
     db |-> db, file |-> file, apps |-> apps, saves |-> saves]

\* an identify_provider that records the issue as identified, not the provider as matched
IdentifyProviderMatched_issue(health_issue, patient_name, match, conversation_id, convs, db, file, apps) ==
    IF match = <<>>
    THEN Outcome(FALSE, [error |-> "No suitable provider found", health_issue |-> health_issue],
                 convs, db, file, apps, 0)
    ELSE IF conversation_id \notin DOMAIN convs
    THEN Outcome(TRUE, [exception |-> "ValueError"], convs, db, file, apps, 0)
    ELSE
    LET c1 == update_context(convs, conversation_id, "health_issue", health_issue).conversations
        c2 == update_context(c1, conversation_id,
                             "provider_id", match[1].provider_id).conversations
        c3 == update_context(c2, conversation_id,
                             "provider_name", match[1].provider_name).conversations
        c4 == IF patient_name # <<>> /\ patient_name[1] # ""
              THEN update_context(c3, conversation_id,
                                  "patient_name", patient_name[1]).conversations
              ELSE c3
        c5 == set_state(c4, conversation_id, ISSUE_IDENTIFIED).conversations
        provider == get_provider_by_id(match[1].provider_id)[1]
    IN  Outcome(FALSE,
                [provider_id |-> match[1].provider_id,
                 provider_name |-> match[1].provider_name,
                 specialty |-> match[1].specialty,
                 experience_years |-> provider.experience_years,
                 rating |-> provider.rating,
                 location |-> provider.location,
                 match_reason |-> match[1].match_reason],
                c5, db, file, apps, 0)

\* execute_function, function_name == "identify_provider", from the match on
IdentifyProviderMatched(health_issue, patient_name, match, conversation_id, convs, db, file, apps) ==
    IF match = <<>>
    THEN Outcome(FALSE, [error |-> "No suitable provider found", health_issue |-> health_issue],
                 convs, db, file, apps, 0)
    ELSE IF conversation_id \notin DOMAIN convs
    THEN Outcome(TRUE, [exception |-> "ValueError"], convs, db, file, apps, 0)
    ELSE
    LET c1 == update_context(convs, conversation_id, "health_issue", health_issue).conversations
        c2 == update_context(c1, conversation_id,
                             "provider_id", match[1].provider_id).conversations
        c3 == update_context(c2, conversation_id,
                             "provider_name", match[1].provider_name).conversations
        c4 == IF patient_name # <<>> /\ patient_name[1] # ""
              THEN update_context(c3, conversation_id,
                                  "patient_name", patient_name[1]).conversations
              ELSE c3
        c5 == set_state(c4, conversation_id, PROVIDER_MATCHED).conversations
        provider == get_provider_by_id(match[1].provider_id)[1]
    IN  Outcome(FALSE,
                [provider_id |-> match[1].provider_id,
                 provider_name |-> match[1].provider_name,
                 specialty |-> match[1].specialty,
                 experience_years |-> provider.experience_years,
                 rating |-> provider.rating,
                 location |-> provider.location,
                 match_reason |-> match[1].match_reason],
                c5, db, file, apps, 0)

\* execute_function, function_name == "identify_provider"
execute_function_identify_provider(arguments, conversation_id, convs, db, file, apps) ==
    IF "health_issue" \notin DOMAIN arguments
    THEN \* match_provider_for_issue(None): None has no lower()
         Outcome(TRUE, [exception |-> "AttributeError"], convs, db, file, apps, 0)
    ELSE IdentifyProviderMatched(arguments["health_issue"], Get(arguments, "patient_name"),
                                 match_provider_for_issue(arguments["health_issue"]),
                                 conversation_id, convs, db, file, apps)

\* a check_availability that writes the availability and leaves the state
execute_function_check_availability_stale(arguments, conversation_id, convs, db, file, apps) ==
    LET provider_id == IF "provider_id" \in DOMAIN arguments
                       THEN arguments["provider_id"] ELSE None
        time_preference == IF "time_preference" \in DOMAIN arguments
                           THEN arguments["time_preference"] ELSE "any"
        summary == get_availability_summary(db, provider_id)
        filtering == time_preference # "" /\ time_preference # "any"
        Keeps(slot) == \/ time_preference = "morning" /\ HourOf(slot) < 12
                       \/ time_preference = "afternoon" /\ HourOf(slot) >= 12
        filtered_slots(date) == SelectSeq(SlotsOf(db, summary[date]), Keeps)
        availability ==
            IF filtering
            THEN [date \in {d \in DOMAIN summary : filtered_slots(d) # <<>>} |->
                    Copy(filtered_slots(date))]
            ELSE summary
        content == Content(db, availability)
        provider == get_provider_by_id(provider_id)
    IN  IF filtering /\ format_availability_message_raises(Content(db, summary))
        THEN \* int(slot.split(":")[0]) raises in the filter loop
             Outcome(TRUE, [exception |-> "ValueError"], convs, db, file, apps, 0)
        ELSE IF DOMAIN availability = {}
        THEN Outcome(FALSE,
                     [error |-> "No available slots found",
                      provider_name |-> IF provider # <<>> THEN provider[1].name
                                        ELSE "this provider",
                      time_preference |-> time_preference,
                      provider_id |-> provider_id],
                     convs, db, file, apps, 0)
        ELSE IF conversation_id \notin DOMAIN convs
        THEN Outcome(TRUE, [exception |-> "ValueError"], convs, db, file, apps, 0)
        ELSE
        LET c1 == update_context(convs, conversation_id,
                                 "availability", availability).conversations
            c2 == c1
        IN  IF format_availability_message_raises(content)
            THEN \* raised while the returned dict is built, after the updates
                 Outcome(TRUE, [exception |-> "ValueError"], c2, db, file, apps, 0)
            ELSE Outcome(FALSE,
                         [provider_id |-> provider_id,
                          availability |-> content,
                          formatted_message |-> format_availability_message(content)],
                         c2, db, file, apps, 0)

\* execute_function, function_name == "check_availability" (num_days only
\* reaches the unused days_ahead and the text of the apology)
execute_function_check_availability(arguments, conversation_id, convs, db, file, apps) ==
    LET provider_id == IF "provider_id" \in DOMAIN arguments
                       THEN arguments["provider_id"] ELSE None
        time_preference == IF "time_preference" \in DOMAIN arguments
                           THEN arguments["time_preference"] ELSE "any"
        summary == get_availability_summary(db, provider_id)
        filtering == time_preference # "" /\ time_preference # "any"
        Keeps(slot) == \/ time_preference = "morning" /\ HourOf(slot) < 12
                       \/ time_preference = "afternoon" /\ HourOf(slot) >= 12
        filtered_slots(date) == SelectSeq(SlotsOf(db, summary[date]), Keeps)
        availability ==
            IF filtering
            THEN [date \in {d \in DOMAIN summary : filtered_slots(d) # <<>>} |->
                    Copy(filtered_slots(date))]
            ELSE summary
        content == Content(db, availability)
        provider == get_provider_by_id(provider_id)
    IN  IF filtering /\ format_availability_message_raises(Content(db, summary))
        THEN \* int(slot.split(":")[0]) raises in the filter loop
             Outcome(TRUE, [exception |-> "ValueError"], convs, db, file, apps, 0)
        ELSE IF DOMAIN availability = {}
        THEN Outcome(FALSE,
                     [error |-> "No available slots found",
                      provider_name |-> IF provider # <<>> THEN provider[1].name
                                        ELSE "this provider",
                      time_preference |-> time_preference,
                      provider_id |-> provider_id],
                     convs, db, file, apps, 0)
        ELSE IF conversation_id \notin DOMAIN convs
        THEN Outcome(TRUE, [exception |-> "ValueError"], convs, db, file, apps, 0)
        ELSE
        LET c1 == update_context(convs, conversation_id,
                                 "availability", availability).conversations
            c2 == set_state(c1, conversation_id, AVAILABILITY_CHECKED).conversations
        IN  IF format_availability_message_raises(content)
            THEN \* raised while the returned dict is built, after the updates
                 Outcome(TRUE, [exception |-> "ValueError"], c2, db, file, apps, 0)
            ELSE Outcome(FALSE,
                         [provider_id |-> provider_id,
                          availability |-> content,
                          formatted_message |-> format_availability_message(content)],
                         c2, db, file, apps, 0)

\* execute_function, function_name == "create_appointment", from the answer
\* c of create_appointment on
CreateAppointmentAnswered(c, conversation_id, convs) ==
    IF c.appointment = <<>>
    THEN Outcome(FALSE,
                 [error |-> "Failed to create appointment. Slot may no longer be available."],
                 convs, c.db, c.file, c.apps, c.saves)
    ELSE IF conversation_id \notin DOMAIN convs
    THEN Outcome(TRUE, [exception |-> "ValueError"], convs, c.db, c.file, c.apps, c.saves)
    ELSE
    LET appointment == c.appointment[1]
        c1 == update_context(convs, conversation_id,
                             "appointment_id", appointment.id).conversations
        c2 == set_state(c1, conversation_id, APPOINTMENT_CONFIRMED).conversations
    IN  Outcome(FALSE,
                [success |-> TRUE,
                 appointment_id |-> appointment.id,
                 patient_name |-> appointment.patient_name,
                 provider_name |-> appointment.provider_name,
                 date |-> appointment.date,
                 time |-> appointment.time,
                 location |-> appointment.location],
                c2, c.db, c.file, c.apps, c.saves)

\* execute_function, function_name == "create_appointment"; the model
\* AppointmentCreate raises ValidationError when a required field is None
execute_function_create_appointment(arguments, conversation_id, convs, db, file, apps, appointment_id, io) ==
    IF ~({"patient_name", "provider_id", "date", "time"} \subseteq DOMAIN arguments)
    THEN Outcome(TRUE, [exception |-> "ValidationError"], convs, db, file, apps, 0)
    ELSE CreateAppointmentAnswered(
             create_appointment(db, file, apps,
                 [patient_name |-> arguments["patient_name"],
                  provider_id |-> arguments["provider_id"],
                  date |-> arguments["date"],
                  time |-> arguments["time"],
                  reason |-> IF "reason" \in DOMAIN arguments THEN arguments["reason"] ELSE None],
                 appointment_id, io),
             conversation_id, convs)

\* an execute_function that raises on a function name it does not know
execute_function_strict(function_name, arguments, conversation_id, convs, db, file, apps, appointment_id, io) ==
    IF function_name = "identify_provider"
    THEN execute_function_identify_provider(arguments, conversation_id, convs, db, file, apps)
    ELSE IF function_name = "check_availability"
    THEN execute_function_check_availability(arguments, conversation_id, convs, db, file, apps)
    ELSE IF function_name = "create_appointment"
    THEN execute_function_create_appointment(arguments, conversation_id, convs, db, file, apps,
                                             appointment_id, io)
    ELSE Outcome(TRUE, [exception |-> "KeyError"], convs, db, file, apps, 0)

\* execute_function(function_name, arguments, conversation_id, conv_manager),
\* appointment_id the uuid4 drawn and io the outcome of the file write
execute_function(function_name, arguments, conversation_id, convs, db, file, apps, appointment_id, io) ==
    IF function_name = "identify_provider"
    THEN execute_function_identify_provider(arguments, conversation_id, convs, db, file, apps)
    ELSE IF function_name = "check_availability"
    THEN execute_function_check_availability(arguments, conversation_id, convs, db, file, apps)
    ELSE IF function_name = "create_appointment"
    THEN execute_function_create_appointment(arguments, conversation_id, convs, db, file, apps,
                                             appointment_id, io)
    ELSE Outcome(FALSE, [error |-> "Unknown function", function_name |-> function_name],
                 convs, db, file, apps, 0)

\* a get_suggested_actions that answers the same list in every state
get_suggested_actions_uniform(state) ==
    <<"Describe your health issue", "Ask about providers">>

get_suggested_actions(state) ==
    IF state = INITIAL THEN <<"Describe your health issue", "Ask about providers">>
    ELSE IF state = PROVIDER_MATCHED THEN <<"Check availability", "Ask about the provider">>
    ELSE IF state = AVAILABILITY_CHECKED THEN <<"Book an appointment", "Request different times">>
    ELSE IF state = APPOINTMENT_CONFIRMED
    THEN <<"Download .ics file", "Schedule another appointment">>
    ELSE <<>>

(***************************** llm/client.py *******************************)
\* An LLM response: failed when chat_completion raises, else the content of
\* the message (<<>> for None) and the tool calls it asks for.  The arguments
\* of a tool call are JSON text: well_formed tells whether json.loads parses
\* it, object is the dict it parses to.
extract_message_content(response) ==
    IF response.content = <<>> THEN "" ELSE response.content[1]

\* the tool calls of the message, with the id of each (its position)
extract_tool_calls(response) ==
    [i \in 1..Len(response.tool_calls) |->
       [id |-> i, function |-> response.tool_calls[i].function,
        arguments |-> response.tool_calls[i].arguments]]

\* json.loads(text): <<>> when it raises JSONDecodeError
json_loads(text) == IF text.well_formed THEN <<text.object>> ELSE <<>>

(***************************** inputs **************************************)
ProviderIds == {"p001", "p006", "p999"}
Dates == {D0106, D0115}
Times == {T0900, T1400, Empty}
PatientNames == {"John Doe"}
Reasons == {"Skin checkup"}

Slot(provider_id, date, time) == [provider_id |-> provider_id, date |-> date, time |-> time]

AppointmentCreate ==
    [patient_name : PatientNames, provider_id : ProviderIds, date : Dates, time : Times,
     reason : Reasons]

\* uuid4: an id no appointment has.  The ids are drawn in a fixed order (the
\* states reached with another draw differ only by a renaming of the ids).
FreshIds(apps) == {Cardinality(DOMAIN apps) + 1} \cap (1..MaxAppointments)

\* whether book_slot finds the slot, and so writes the file
Bookable(db, provider_id, date, time) ==
    /\ provider_id \in DOMAIN db
    /\ \E i \in 1..Len(db[provider_id]) :
          /\ db[provider_id][i].date = date
          /\ time \in Range(db[provider_id][i].available_slots)

\* the outcomes of the file write of one book_slot call (none when nothing is booked)
WriteOutcomes(db, provider_id, date, time) ==
    IF Bookable(db, provider_id, date, time) THEN SaveOutcomes ELSE {"ok"}

\* the uuid4 drawn by one create_appointment call (none, 0, when it fails before)
IdOutcomes(db, apps, appointment_data) ==
    IF /\ get_provider_by_id(appointment_data.provider_id) # <<>>
       /\ Bookable(db, appointment_data.provider_id, appointment_data.date, appointment_data.time)
    THEN FreshIds(apps) ELSE {0}

Idle == [op |-> "idle"]

\* the issue texts of tests/test_provider_matcher.py: a keyword, and none
RASH_ISSUE == <<"I", " ", "h", "a", "v", "e", " ", "a", " ", "r", "a", "s", "h", " ", "o", "n", " ", "m", "y", " ", "a", "r", "m">>

UNWELL_ISSUE == <<"I", " ", "d", "o", "n", "'", "t", " ", "f", "e", "e", "l", " ", "w", "e", "l", "l">>

\* the tool calls an LLM response can ask for
ToolCallRequests ==
    LET Call(function, object) ==
            [function |-> function, arguments |-> [well_formed |-> TRUE, object |-> object]]
    IN  { Call("identify_provider", [health_issue |-> RASH_ISSUE, patient_name |-> "John Doe"]),
          Call("identify_provider", [health_issue |-> UNWELL_ISSUE]),
          Call("check_availability", [provider_id |-> "p001"]),
          Call("check_availability", [provider_id |-> "p001", time_preference |-> "morning"]),
          Call("check_availability", [provider_id |-> "p001", time_preference |-> "afternoon"]),
          Call("check_availability", [provider_id |-> "p999", time_preference |-> "morning"]),
          Call("create_appointment", [patient_name |-> "John Doe", provider_id |-> "p001",
                                      date |-> D0106, time |-> T0900, reason |-> "Skin checkup"]),
          Call("create_appointment", [patient_name |-> "John Doe", provider_id |-> "p001",
                                      date |-> D0106, time |-> Empty, reason |-> "Skin checkup"]),
          Call("create_appointment", [patient_name |-> "John Doe", provider_id |-> "p999",
                                      date |-> D0106, time |-> T1400]),
          Call("create_appointment", [provider_id |-> "p001", date |-> D0115, time |-> T0900]),
          Call("cancel_appointment", [appointment_id |-> 1]),
          [function |-> "identify_provider",
           arguments |-> [well_formed |-> FALSE, object |-> [unparsed |-> TRUE]]] }

ToolCallLists == UNION {[1..n -> ToolCallRequests] : n \in 1..MaxToolCalls}

Failed == [failed |-> TRUE, content |-> <<>>, tool_calls |-> <<>>]

\* what the first chat_completion of a turn can answer
LLMResponses ==
    {Failed}
    \cup {[failed |-> FALSE, content |-> content, tool_calls |-> <<>>] :
            content \in {<<>>, <<"How can I help you?">>}}
    \cup {[failed |-> FALSE, content |-> <<>>, tool_calls |-> tool_calls] :
            tool_calls \in ToolCallLists}

\* what the second chat_completion can answer (none is made without tool
\* calls): it raises, it answers a text, or it asks for a tool call again
FinalResponses(response) ==
    IF response.failed \/ response.tool_calls = <<>> THEN {Failed}
    ELSE {Failed,
          [failed |-> FALSE, content |-> <<"Done.">>, tool_calls |-> <<>>],
          [failed |-> FALSE, content |-> <<>>,
           tool_calls |-> << [function |-> "create_appointment",
                              arguments |->
                                [well_formed |-> TRUE,
                                 object |-> [patient_name |-> "John Doe", provider_id |-> "p001",
                                             date |-> D0115, time |-> T0900]]] >>]}

\* a request body; conversation_id 0 stands for None
ConversationRequest == [message : {"I have a rash"}, conversation_id : 0..MaxConversations]

\* uuid4: an id no conversation has, drawn in a fixed order
FreshConversationIds(convs) == {Cardinality(DOMAIN convs) + 1} \cap (1..MaxConversations)

\* the user messages stored, over all conversations: the turns that got that far
UserMessages(convs) ==
    LET n[S \in SUBSET DOMAIN convs] ==
            IF S = {} THEN 0
            ELSE LET c == CHOOSE x \in S : TRUE
                 IN  Len(SelectSeq(convs[c].messages, LAMBDA m : m.role = "user")) + n[S \ {c}]
    IN  n[DOMAIN convs]

\* what the environment decides in one tool call: the uuid4 drawn and the
\* outcome of the file write, for a create_appointment that gets that far
ToolEnv(function_name, arguments, db, apps) ==
    IF /\ function_name = "create_appointment"
       /\ {"patient_name", "provider_id", "date", "time"} \subseteq DOMAIN arguments
       /\ get_provider_by_id(arguments["provider_id"]) # <<>>
       /\ Bookable(db, arguments["provider_id"], arguments["date"], arguments["time"])
    THEN FreshIds(apps) \X SaveOutcomes
    ELSE {<<0, "ok">>}

(***************************** handle_conversation *************************)
\* what a tool call finds and leaves: the conversation and the stores
Snapshot(convs, conversation_id, db, file, apps) ==
    [conversation |-> IF conversation_id \in DOMAIN convs
                      THEN <<convs[conversation_id]>> ELSE <<>>,
     db |-> db, file |-> file, apps |-> apps]

\* the record of one tool call made in a turn
Made(tool_call, func_args, raised, result, before, after, saves) ==
    [function |-> tool_call.function, arguments |-> func_args, raised |-> raised,
     result |-> result, before |-> before, after |-> after, saves |-> saves]

\* the loop after a tool call that execute_function answered with r: the
\* call and its result are appended to the messages for the next LLM call
AfterCall(run, tool_call, func_args, conversation_id, r) ==
    [conversations |-> r.conversations, db |-> r.db, file |-> r.file, apps |-> r.apps,
     calls |-> Append(run.calls,
                      Made(tool_call, func_args, r.raised, r.result,
                           Snapshot(run.conversations, conversation_id,
                                    run.db, run.file, run.apps),
                           Snapshot(r.conversations, conversation_id, r.db, r.file, r.apps),
                           r.saves)),
     full_messages |->
         IF r.raised THEN run.full_messages
         ELSE run.full_messages \o
              << [role |-> "assistant", content |-> None, tool_calls |-> <<tool_call>>],
                 [role |-> "tool", tool_call_id |-> tool_call.id, content |-> r.result] >>,
     raised |-> r.raised]

\* the loop after a tool call whose arguments json.loads cannot parse
AfterBadArguments(run, tool_call, conversation_id, before) ==
    [run EXCEPT !.raised = TRUE,
                !.calls = Append(@, Made(tool_call, <<>>, TRUE,
                                         [exception |-> "JSONDecodeError"],
                                         before, before, 0))]

\* The for loop of handle_conversation over the tool calls still to run, from
\* the state run = [conversations, db, file, apps, calls, full_messages,
\* raised]: the set of the states it can end in, one per choice of the
\* environment.  calls records each call made; an exception ends the loop.
RECURSIVE RunToolCalls(_, _, _)
RunToolCalls(tool_calls, conversation_id, run) ==
    IF tool_calls = <<>> \/ run.raised THEN {run}
    ELSE IF json_loads(tool_calls[1].arguments) = <<>>
    THEN {AfterBadArguments(run, tool_calls[1], conversation_id,
                            Snapshot(run.conversations, conversation_id,
                                     run.db, run.file, run.apps))}
    ELSE UNION {
           RunToolCalls(Tail(tool_calls), conversation_id,
               AfterCall(run, tool_calls[1], json_loads(tool_calls[1].arguments),
                         conversation_id,
                         execute_function(tool_calls[1].function,
                                          json_loads(tool_calls[1].arguments)[1],
                                          conversation_id, run.conversations,
                                          run.db, run.file, run.apps, env[1], env[2])))
           : env \in ToolEnv(tool_calls[1].function,
                             json_loads(tool_calls[1].arguments)[1], run.db, run.apps) }

\* What a turn answers and leaves behind.  status 500 stands for the
\* HTTPException and for every exception that leaves the handler; sent holds
\* the message list of each LLM call made, llm_calls counts them.
\* an Answer of a handler that has registered the conversation id it was given
Answer_registering(status, response, convs, db, file, apps, llm_calls, calls, conversation_id, state_before, sent) ==
    [status |-> status, response |-> response,
     conversations |-> create_conversation(convs, conversation_id), db |-> db,
     file |-> file, apps |-> apps, llm_calls |-> llm_calls, calls |-> calls,
     conversation_id |-> conversation_id, state_before |-> state_before, sent |-> sent]

Answer(status, response, convs, db, file, apps, llm_calls, calls, conversation_id, state_before, sent) ==
    [status |-> status, response |-> response, conversations |-> convs, db |-> db,
     file |-> file, apps |-> apps, llm_calls |-> llm_calls, calls |-> calls,
     conversation_id |-> conversation_id, state_before |-> state_before, sent |-> sent]

\* POST /api/conversation/: the set of the outcomes of one turn, given the
\* request, the uuid4 a new conversation would get, and what the first and
\* the second LLM call answer
handle_conversation(client, convs, db, file, apps, request, new_conversation_id, response, final_response) ==
    IF ~client
    THEN {Answer(500, <<>>, convs, db, file, apps, 0, <<>>, request.conversation_id,
                 get_state(convs, request.conversation_id), <<>>)}
    ELSE
    LET conversation_id == IF request.conversation_id = 0 THEN new_conversation_id
                           ELSE request.conversation_id
        c0 == IF request.conversation_id = 0
              THEN create_conversation(convs, new_conversation_id) ELSE convs
        state_before == get_state(c0, conversation_id)
        added == add_message(c0, conversation_id, "user", request.message)
        c1 == added.conversations
        full_messages == <<[role |-> "system",
                            content |-> get_system_prompt(c1, conversation_id)]>>
                         \o get_messages(c1, conversation_id)
        Finish(c, d, f, a, assistant_content, llm_calls, calls, sent) ==
            LET c2 == add_message(c, conversation_id, "assistant",
                                  assistant_content).conversations
                current_state == get_state(c2, conversation_id)
            IN  Answer(200,
                       << [response |-> assistant_content,
                           conversation_id |-> conversation_id,
                           state |-> current_state,
                           suggested_actions |-> get_suggested_actions(current_state)] >>,
                       c2, d, f, a, llm_calls, calls, conversation_id, state_before, sent)
    IN  IF added.raised
        THEN {Answer(500, <<>>, c0, db, file, apps, 0, <<>>, conversation_id,
                     state_before, <<>>)}
        ELSE IF response.failed
        THEN {Answer(500, <<>>, c1, db, file, apps, 1, <<>>, conversation_id,
                     state_before, <<full_messages>>)}
        ELSE IF extract_tool_calls(response) = <<>>
        THEN {Finish(c1, db, file, apps, extract_message_content(response), 1, <<>>,
                     <<full_messages>>)}
        ELSE
        { IF run.raised
          THEN Answer(500, <<>>, run.conversations, run.db, run.file, run.apps, 1,
                      run.calls, conversation_id, state_before, <<full_messages>>)
          ELSE IF final_response.failed
          THEN Answer(500, <<>>, run.conversations, run.db, run.file, run.apps, 2,
                      run.calls, conversation_id, state_before,
                      <<full_messages, run.full_messages>>)
          ELSE Finish(run.conversations, run.db, run.file, run.apps,
                      extract_message_content(final_response), 2, run.calls,
                      <<full_messages, run.full_messages>>)
          : run \in RunToolCalls(extract_tool_calls(response), conversation_id,
                                 [conversations |-> c1, db |-> db, file |-> file,
                                  apps |-> apps, calls |-> <<>>,
                                  full_messages |-> full_messages, raised |-> FALSE]) }

\* clear_schedule_cache drops the Schedule objects: a dict that held their
\* slot lists keeps the lists as they are, and nothing changes them any more
Detach(db, convs) ==
    [c \in DOMAIN convs |->
       IF "availability" \in DOMAIN convs[c].context
       THEN [convs[c] EXCEPT !.context =
               Put(@, "availability",
                   [date \in DOMAIN @["availability"] |->
                      Copy(SlotsOf(db, @["availability"][date]))])]
       ELSE convs[c]]

(***************************** actions *************************************)
Init ==
    /\ CSV_FILE = CSV_FIXTURE
    /\ SCHEDULES_DB = load_schedules_from_csv(CSV_FIXTURE)
    /\ APPOINTMENTS_DB = <<>>
    /\ llm_client = TRUE
    /\ conversations = <<>>
    /\ reloaded = FALSE
    /\ in_flight = <<>>
    /\ recording = <<>>
    /\ last = Idle

\* the process as it starts, the LLM client built or not (no API key)
InitConversation ==
    /\ CSV_FILE = CSV_FIXTURE
    /\ SCHEDULES_DB = load_schedules_from_csv(CSV_FIXTURE)
    /\ APPOINTMENTS_DB = <<>>
    /\ llm_client \in BOOLEAN
    /\ conversations = <<>>
    /\ reloaded = FALSE
    /\ in_flight = <<>>
    /\ recording = <<>>
    /\ last = Idle

\* a direct call of book_slot(provider_id, date, time)
BookSlot ==
    /\ last = Idle
    /\ \E provider_id \in ProviderIds, date \in Dates, time \in Times :
        \E io \in WriteOutcomes(SCHEDULES_DB, provider_id, date, time) :
          LET r == book_slot(SCHEDULES_DB, CSV_FILE, provider_id, date, time, io)
          IN  /\ SCHEDULES_DB' = r.db
              /\ CSV_FILE' = r.file
              /\ last' = [op |-> "book_slot", slot |-> Slot(provider_id, date, time),
                          result |-> r.ok, saves |-> r.saves, saved |-> r.saved]
              /\ UNCHANGED <<APPOINTMENTS_DB, llm_client, conversations, reloaded, in_flight, recording>>

\* clear_schedule_cache(): initialize_database() loads the file again
ClearScheduleCache ==
    /\ last = Idle
    /\ SCHEDULES_DB' = load_schedules_from_csv(CSV_FILE)
    /\ conversations' = Detach(SCHEDULES_DB, conversations)
    /\ reloaded' = TRUE
    /\ last' = [op |-> "clear_schedule_cache"]
    /\ UNCHANGED <<CSV_FILE, APPOINTMENTS_DB, llm_client, in_flight, recording>>

\* a direct call of create_appointment(appointment_data)
CreateAppointment ==
    /\ last = Idle
    /\ \E appointment_data \in AppointmentCreate :
        \E appointment_id \in IdOutcomes(SCHEDULES_DB, APPOINTMENTS_DB, appointment_data) :
        \E io \in WriteOutcomes(SCHEDULES_DB, appointment_data.provider_id,
                                 appointment_data.date, appointment_data.time) :
          LET r == create_appointment(SCHEDULES_DB, CSV_FILE, APPOINTMENTS_DB,
                                      appointment_data, appointment_id, io)
          IN  /\ SCHEDULES_DB' = r.db
              /\ CSV_FILE' = r.file
              /\ APPOINTMENTS_DB' = r.apps
              /\ last' = [op |-> "create_appointment", request |-> appointment_data,
                          result |-> r.appointment, saves |-> r.saves, saved |-> r.saved]
              /\ UNCHANGED <<llm_client, conversations, reloaded, in_flight, recording>>

\* POST /api/appointments/
PostAppointment ==
    /\ last = Idle
    /\ \E appointment_data \in AppointmentCreate :
        \E appointment_id \in IdOutcomes(SCHEDULES_DB, APPOINTMENTS_DB, appointment_data) :
        \E io \in WriteOutcomes(SCHEDULES_DB, appointment_data.provider_id,
                                 appointment_data.date, appointment_data.time) :
          LET r == create_new_appointment(SCHEDULES_DB, CSV_FILE, APPOINTMENTS_DB,
                                          appointment_data, appointment_id, io)
          IN  /\ SCHEDULES_DB' = r.db
              /\ CSV_FILE' = r.file
              /\ APPOINTMENTS_DB' = r.apps
              /\ last' = [op |-> "POST /appointments", request |-> appointment_data,
                          status |-> r.status, result |-> r.appointment,
                          saves |-> r.saves, saved |-> r.saved]
              /\ UNCHANGED <<llm_client, conversations, reloaded, in_flight, recording>>

\* the caller takes the result of the call; the next call can start
Return ==
    /\ last # Idle
    /\ last' = Idle
    /\ UNCHANGED <<SCHEDULES_DB, CSV_FILE, APPOINTMENTS_DB, llm_client, conversations, reloaded, in_flight, recording>>

Next ==
    \/ BookSlot
    \/ ClearScheduleCache
    \/ CreateAppointment
    \/ PostAppointment
    \/ Return

Spec == Init /\ [][Next]_vars

\* whether the handler gets as far as the first LLM call
ReachesLLM(request) ==
    /\ llm_client
    /\ request.conversation_id = 0 \/ request.conversation_id \in DOMAIN conversations

\* POST /api/conversation/: one whole turn
HandleConversation ==
    /\ last = Idle
    /\ \E request \in {q \in ConversationRequest :
                           ReachesLLM(q) => UserMessages(conversations) < MaxTurns} :
        \E new_conversation_id \in
              IF llm_client /\ request.conversation_id = 0
              THEN FreshConversationIds(conversations) ELSE {0} :
        \E response \in IF ReachesLLM(request) THEN LLMResponses ELSE {Failed} :
        \E final_response \in FinalResponses(response) :
          /\ \E r \in handle_conversation(llm_client, conversations, SCHEDULES_DB, CSV_FILE,
                                          APPOINTMENTS_DB, request, new_conversation_id,
                                          response, final_response) :
                /\ conversations' = r.conversations
                /\ SCHEDULES_DB' = r.db
                /\ CSV_FILE' = r.file
                /\ APPOINTMENTS_DB' = r.apps
                /\ last' = [op |-> "POST /conversation", request |-> request,
                            status |-> r.status, response |-> r.response,
                            llm_calls |-> r.llm_calls, calls |-> r.calls,
                            conversation_id |-> r.conversation_id,
                            state_before |-> r.state_before, sent |-> r.sent,
                            first |-> IF r.llm_calls >= 1 THEN <<response>> ELSE <<>>,
                            second |-> IF r.llm_calls = 2 THEN <<final_response>> ELSE <<>>,
                            llm_failed |-> \/ r.llm_calls >= 1 /\ response.failed
                                           \/ r.llm_calls = 2 /\ final_response.failed]
                /\ UNCHANGED <<llm_client, reloaded, in_flight, recording>>

NextConversation ==
    \/ HandleConversation
    \/ ClearScheduleCache
    \/ Return

SpecConversation == InitConversation /\ [][NextConversation]_vars

\* the process started without OPENAI_API_KEY: LLMClient() raises ValueError
\* and llm_client is None
InitUnconfigured ==
    /\ CSV_FILE = CSV_FIXTURE
    /\ SCHEDULES_DB = load_schedules_from_csv(CSV_FIXTURE)
    /\ APPOINTMENTS_DB = <<>>
    /\ llm_client = FALSE
    /\ conversations = <<>>
    /\ reloaded = FALSE
    /\ in_flight = <<>>
    /\ recording = <<>>
    /\ last = Idle

\* GET /api/appointments/{appointment_id}
GetAppointmentById ==
    /\ last = Idle
    /\ \E appointment_id \in 1..MaxAppointments :
          LET r == get_appointment_by_id(APPOINTMENTS_DB, appointment_id)
          IN  last' = [op |-> "GET /appointments/{id}", appointment_id |-> appointment_id,
                       status |-> r.status, result |-> r.appointment]
    /\ UNCHANGED <<SCHEDULES_DB, CSV_FILE, APPOINTMENTS_DB, llm_client, conversations, reloaded, in_flight, recording>>

NextUnconfigured ==
    \/ HandleConversation
    \/ PostAppointment
    \/ GetAppointmentById
    \/ Return

SpecUnconfigured == InitUnconfigured /\ [][NextUnconfigured]_vars

(***************************** ConversationManager *************************)
\* The manager used on its own, as tests/test_conversation_manager.py does.
Roles == {"user", "assistant"}
ContextKeys == {"provider_id", "patient_name"}
ContextValues == {"p001", "p006"}

InitManager ==
    /\ CSV_FILE = CSV_FIXTURE
    /\ SCHEDULES_DB = load_schedules_from_csv(CSV_FIXTURE)
    /\ APPOINTMENTS_DB = <<>>
    /\ llm_client = FALSE
    /\ conversations = <<>>
    /\ reloaded = FALSE
    /\ in_flight = <<>>
    /\ recording = <<>>
    /\ last = Idle

Untouched == UNCHANGED <<SCHEDULES_DB, CSV_FILE, APPOINTMENTS_DB, llm_client, reloaded, in_flight, recording>>

CreateConversation ==
    /\ last = Idle
    /\ \E conversation_id \in FreshConversationIds(conversations) :
          /\ conversations' = create_conversation(conversations, conversation_id)
          /\ last' = [op |-> "create_conversation", result |-> conversation_id]
    /\ Untouched

AddMessage ==
    /\ last = Idle
    /\ \E conversation_id \in 1..MaxConversations, role \in Roles :
          /\ Len(get_messages(conversations, conversation_id)) < MaxMessages
          /\ LET r == add_message(conversations, conversation_id, role, "Hello")
             IN  /\ conversations' = r.conversations
                 /\ last' = [op |-> "add_message", conversation_id |-> conversation_id,
                             role |-> role, content |-> "Hello", raised |-> r.raised]
    /\ Untouched

SetState ==
    /\ last = Idle
    /\ \E conversation_id \in 1..MaxConversations, state \in ConversationState :
          LET r == set_state(conversations, conversation_id, state)
          IN  /\ conversations' = r.conversations
              /\ last' = [op |-> "set_state", conversation_id |-> conversation_id,
                          state |-> state, raised |-> r.raised,
                          old_state |-> get_state(conversations, conversation_id)]
    /\ Untouched

UpdateContext ==
    /\ last = Idle
    /\ \E conversation_id \in 1..MaxConversations, value \in ContextValues :
          LET r == update_context(conversations, conversation_id, "provider_id", value)
          IN  /\ conversations' = r.conversations
              /\ last' = [op |-> "update_context", conversation_id |-> conversation_id,
                          key |-> "provider_id", value |-> value, raised |-> r.raised]
    /\ Untouched

GetMessages ==
    /\ last = Idle
    /\ \E conversation_id \in 1..MaxConversations :
          last' = [op |-> "get_messages", conversation_id |-> conversation_id,
                   result |-> get_messages(conversations, conversation_id)]
    /\ UNCHANGED conversations
    /\ Untouched

GetState ==
    /\ last = Idle
    /\ \E conversation_id \in 1..MaxConversations :
          last' = [op |-> "get_state", conversation_id |-> conversation_id,
                   result |-> get_state(conversations, conversation_id)]
    /\ UNCHANGED conversations
    /\ Untouched

GetContext ==
    /\ last = Idle
    /\ \E conversation_id \in 1..MaxConversations, key \in {<<>>} \cup {<<k>> : k \in ContextKeys} :
          last' = [op |-> "get_context", conversation_id |-> conversation_id, key |-> key,
                   result |-> get_context(conversations, conversation_id, key)]
    /\ UNCHANGED conversations
    /\ Untouched

NextManager ==
    \/ CreateConversation
    \/ AddMessage
    \/ SetState
    \/ UpdateContext
    \/ GetMessages
    \/ GetState
    \/ GetContext
    \/ Return

SpecManager == InitManager /\ [][NextManager]_vars

(***************************** match_provider_for_issue ********************)
\* The matcher called on its own, as tests/test_provider_matcher.py does.
UpperChar(c) ==
    IF c \in Range(LOWERCASE)
    THEN UPPERCASE[CHOOSE i \in 1..Len(LOWERCASE) : LOWERCASE[i] = c]
    ELSE c

\* str.upper()
Upper(s) == [i \in 1..Len(s) |-> UpperChar(s[i])]

\* the keywords of the table at the places listed, joined by " and "
RECURSIVE KeywordText(_)
KeywordText(places) ==
    IF places = <<>> THEN <<>>
    ELSE IF Len(places) = 1 THEN ISSUE_TO_SPECIALTY[places[1]].keyword
    ELSE ISSUE_TO_SPECIALTY[places[1]].keyword \o <<" ", "a", "n", "d", " ">>
         \o KeywordText(Tail(places))

\* up to n places of the table, in any order
KeywordPlaces(n) == UNION {[1..k -> 1..Len(ISSUE_TO_SPECIALTY)] : k \in 0..n}

\* the issue texts: the keywords at the places in small letters or in
\* capitals, and the two texts of the tests
TextVariants(places) ==
    IF places = <<>> THEN {"small", "capitals", "rash", "unwell"} ELSE {"small", "capitals"}

IssueText(places, variant) ==
    CASE variant = "small" -> KeywordText(places)
      [] variant = "capitals" -> Upper(KeywordText(places))
      [] variant = "rash" -> RASH_ISSUE
      [] variant = "unwell" -> UNWELL_ISSUE

InitMatcher ==
    /\ CSV_FILE = CSV_FIXTURE
    /\ SCHEDULES_DB = load_schedules_from_csv(CSV_FIXTURE)
    /\ APPOINTMENTS_DB = <<>>
    /\ llm_client = FALSE
    /\ conversations = <<>>
    /\ reloaded = FALSE
    /\ in_flight = <<>>
    /\ recording = <<>>
    /\ last = Idle

MatchProviderForIssue ==
    /\ last = Idle
    /\ \E places \in KeywordPlaces(MaxKeywords) :
        \E variant \in TextVariants(places) :
          last' = [op |-> "match_provider_for_issue",
                   health_issue |-> IssueText(places, variant),
                   result |-> match_provider_for_issue(IssueText(places, variant))]
    /\ UNCHANGED <<SCHEDULES_DB, CSV_FILE, APPOINTMENTS_DB, llm_client, conversations, reloaded, in_flight, recording>>

NextMatcher ==
    \/ MatchProviderForIssue
    \/ Return

SpecMatcher == InitMatcher /\ [][NextMatcher]_vars

(***************************** the provider directory **********************)
\* providers.py and provider_matcher.py read the module-level list
\* PROVIDERS_DB. Below the list is an argument, so that the functions are
\* also run on directories with several providers of a specialty, with equal
\* ratings, and with no provider of a specialty that the keyword table names.
get_providers_by_specialty_in(directory, specialty) ==
    SelectSeq(directory, LAMBDA p : p.specialty = specialty)

\* the order of the tuples (rating, experience_years)
KeyLess(a, b) ==
    \/ a.rating < b.rating
    \/ a.rating = b.rating /\ a.experience_years < b.experience_years

\* a choice of the best-rated provider that does not look at the experience
get_best_provider_for_specialty_rated(directory, specialty) ==
    LET providers == get_providers_by_specialty_in(directory, specialty)
        best == {i \in 1..Len(providers) :
                   \A j \in 1..Len(providers) : providers[i].rating >= providers[j].rating}
    IN  IF providers = <<>> THEN <<>> ELSE <<providers[Min(best)]>>

\* max(providers, key=...) returns the first of the greatest ones
get_best_provider_for_specialty_in(directory, specialty) ==
    LET providers == get_providers_by_specialty_in(directory, specialty)
        best == {i \in 1..Len(providers) :
                   \A j \in 1..Len(providers) : ~KeyLess(providers[i], providers[j])}
    IN  IF providers = <<>> THEN <<>> ELSE <<providers[Min(best)]>>

\* the loop over the keyword table: <<place>> of the first keyword that the
\* lower-cased text contains, <<>> when it contains none
FirstKeyword(health_issue) ==
    LET health_issue_lower == Lower(health_issue)
        hits == {i \in 1..Len(ISSUE_TO_SPECIALTY) :
                   Contains(health_issue_lower, ISSUE_TO_SPECIALTY[i].keyword)}
    IN  IF hits = {} THEN <<>> ELSE <<Min(hits)>>

match_provider_for_issue_in(directory, health_issue) ==
    LET found == FirstKeyword(health_issue)
        matched_specialty == IF found = <<>> THEN GENERAL_PRACTITIONER
                             ELSE ISSUE_TO_SPECIALTY[found[1]].specialty
        match_keyword == IF found = <<>> THEN <<>> ELSE <<ISSUE_TO_SPECIALTY[found[1]].keyword>>
        confidence == IF found = <<>> THEN 6 ELSE 9
        provider == get_best_provider_for_specialty_in(directory, matched_specialty)
    IN  IF provider = <<>> THEN <<>>
        ELSE << [provider_id |-> provider[1].id,
                 provider_name |-> provider[1].name,
                 specialty |-> provider[1].specialty,
                 match_reason |-> [keyword |-> match_keyword, specialty |-> matched_specialty],
                 confidence |-> confidence] >>

\* list.sort(key=..., reverse=True): greatest key first, providers with equal
\* keys in the order they had
SortDescending(providers) ==
    LET n == Len(providers)
        Before(j, i) == \/ KeyLess(providers[i], providers[j])
                        \/ /\ ~KeyLess(providers[j], providers[i])
                           /\ j < i
        place(i) == 1 + Cardinality({j \in 1..n : Before(j, i)})
    IN  [k \in 1..n |-> providers[CHOOSE i \in 1..n : place(i) = k]]

\* providers[:max_results]
Slice(providers, max_results) ==
    IF max_results >= 0
    THEN SubSeq(providers, 1, Min({max_results, Len(providers)}))
    ELSE SubSeq(providers, 1, Max({Len(providers) + max_results, 0}))

\* ProviderMatch(...) of the provider at rank i, counted from 0; the
\* confidence 0.9 - i * 0.1 is in tenths
OptionAt(provider, matched_specialty, i) ==
    [provider_id |-> provider.id,
     provider_name |-> provider.name,
     specialty |-> provider.specialty,
     match_reason |-> [specialty |-> matched_specialty],
     confidence |-> 9 - i]

\* options listed in the order of the directory
get_multiple_provider_options_unsorted(directory, health_issue, max_results) ==
    LET found == FirstKeyword(health_issue)
        matched_specialty == IF found = <<>> THEN GENERAL_PRACTITIONER
                             ELSE ISSUE_TO_SPECIALTY[found[1]].specialty
        providers == get_providers_by_specialty_in(directory, matched_specialty)
        shown == Slice(providers, max_results)
    IN  [raised |-> \E i \in 1..Len(shown) : 9 - (i - 1) < 0,
         result |-> [i \in 1..Len(shown) |-> OptionAt(shown[i], matched_specialty, i - 1)],
         PROVIDERS_DB |-> directory]

\* raised: ProviderMatch refuses a confidence below 0 (schemas.py, ge=0.0);
\* PROVIDERS_DB: the directory after the call, which sort() leaves alone
\* because get_providers_by_specialty builds a new list
get_multiple_provider_options(directory, health_issue, max_results) ==
    LET found == FirstKeyword(health_issue)
        matched_specialty == IF found = <<>> THEN GENERAL_PRACTITIONER
                             ELSE ISSUE_TO_SPECIALTY[found[1]].specialty
        providers == SortDescending(get_providers_by_specialty_in(directory, matched_specialty))
        shown == Slice(providers, max_results)
    IN  [raised |-> \E i \in 1..Len(shown) : 9 - (i - 1) < 0,
         result |-> [i \in 1..Len(shown) |-> OptionAt(shown[i], matched_specialty, i - 1)],
         PROVIDERS_DB |-> directory]

\* class Specialty
Specialty ==
    {"General Practitioner", "Dermatologist", "Cardiologist", "Neurologist", "Orthopedist",
     "Pediatrician", "Psychiatrist", "Ophthalmologist", "ENT Specialist"}

\* the providers a small directory is made of: two specialties, two
\* ratings, two lengths of experience
ProviderShapes ==
    [specialty : {"Dermatologist", GENERAL_PRACTITIONER}, rating : {46, 48}, experience_years : {8, 15}]

ProviderAt(i, shape) ==
    [id |-> ID_ORDER[i], name |-> ID_ORDER[i], specialty |-> shape.specialty,
     experience_years |-> shape.experience_years, rating |-> shape.rating, location |-> ""]

\* the directory as shipped, and every directory of up to n such providers
Directories(n) ==
    {PROVIDERS_DB} \cup
    UNION {{[i \in 1..k |-> ProviderAt(i, shapes[i])] : shapes \in [1..k -> ProviderShapes]} : k \in 0..n}

HEART_ISSUE == <<"M", "y", " ", "h", "e", "a", "r", "t", " ", "r", "a", "c", "e", "s">>

\* a text with a keyword of a specialty of the small directories, one with
\* none, and one with a keyword of a specialty they do not hold
DirectoryIssues == {RASH_ISSUE, UNWELL_ISSUE, HEART_ISSUE}

InitDirectory ==
    /\ CSV_FILE = CSV_FIXTURE
    /\ SCHEDULES_DB = load_schedules_from_csv(CSV_FIXTURE)
    /\ APPOINTMENTS_DB = <<>>
    /\ llm_client = FALSE
    /\ conversations = <<>>
    /\ reloaded = FALSE
    /\ in_flight = <<>>
    /\ recording = <<>>
    /\ last = Idle

GetBestProviderForSpecialty ==
    /\ last = Idle
    /\ \E directory \in Directories(MaxProviders), specialty \in Specialty :
          last' = [op |-> "get_best_provider_for_specialty",
                   PROVIDERS_DB |-> directory,
                   specialty |-> specialty,
                   result |-> get_best_provider_for_specialty_in(directory, specialty)]
    /\ UNCHANGED <<SCHEDULES_DB, CSV_FILE, APPOINTMENTS_DB, llm_client, conversations, reloaded, in_flight, recording>>

MatchProviderInDirectory ==
    /\ last = Idle
    /\ \E directory \in Directories(MaxProviders), health_issue \in DirectoryIssues :
          last' = [op |-> "match_provider_for_issue_in",
                   PROVIDERS_DB |-> directory,
                   health_issue |-> health_issue,
                   result |-> match_provider_for_issue_in(directory, health_issue)]
    /\ UNCHANGED <<SCHEDULES_DB, CSV_FILE, APPOINTMENTS_DB, llm_client, conversations, reloaded, in_flight, recording>>

GetMultipleProviderOptions ==
    /\ last = Idle
    /\ \E directory \in Directories(MaxProviders), health_issue \in DirectoryIssues,
          max_results \in 0..MaxResults :
          last' = [op |-> "get_multiple_provider_options",
                   PROVIDERS_DB |-> directory,
                   health_issue |-> health_issue,
                   max_results |-> max_results,
                   answer |-> get_multiple_provider_options(directory, health_issue, max_results)]
    /\ UNCHANGED <<SCHEDULES_DB, CSV_FILE, APPOINTMENTS_DB, llm_client, conversations, reloaded, in_flight, recording>>

NextDirectory ==
    \/ GetBestProviderForSpecialty
    \/ MatchProviderInDirectory
    \/ GetMultipleProviderOptions
    \/ Return

SpecDirectory == InitDirectory /\ [][NextDirectory]_vars

(***************************** concurrent requests *************************)
\* POST /api/appointments/ served for several clients at once.  uvicorn.run
\* (main.py) serves the application on one event loop, and
\* create_new_appointment is a coroutine whose body holds no await: the loop
\* runs it from its first line to its return before it runs anything else.
\* The body is taken apart into the steps of book_slot and create_appointment,
\* each request with its own position (pc) and locals in in_flight, and the
\* one place that decides which orders of the steps exist is EventLoopFree.

\* the bookings asked for: the single slot of a date, a slot of a date with
\* two, a time that is not listed, a provider without schedule, and an id
\* that is not in the directory
BookingRequests ==
    {[patient_name |-> "John Doe", provider_id |-> s[1], date |-> s[2], time |-> s[3],
      reason |-> "Skin checkup"] :
       s \in {<<"p001", D0106, T0900>>, <<"p001", D0115, T0900>>, <<"p001", D0115, Empty>>,
              <<"p006", D0106, T0900>>, <<"p999", D0106, T1400>>}}

\* the requests between the first line of the handler and its return
InHandler(flight) == {r \in DOMAIN flight : flight[r].pc \notin {"received", "responded"}}

\* a server that runs every handler in a thread of its own
EventLoopFree_threads(flight) == TRUE

\* the event loop takes the next handler when the one it runs has returned
EventLoopFree(flight) == InHandler(flight) = {}

Responded(flight, r, status) == [flight EXCEPT ![r].pc = "responded", ![r].status = status]

InitConcurrent ==
    /\ CSV_FILE = CSV_FIXTURE
    /\ SCHEDULES_DB = load_schedules_from_csv(CSV_FIXTURE)
    /\ APPOINTMENTS_DB = <<>>
    /\ llm_client = FALSE
    /\ conversations = <<>>
    /\ reloaded = FALSE
    /\ in_flight = <<>>
    /\ recording = <<>>
    /\ last = Idle

\* a client sends a request; behind: the requests being handled at that time
ReceiveRequest ==
    /\ Len(in_flight) < MaxRequests
    /\ \E appointment_data \in BookingRequests :
          in_flight' = Append(in_flight,
                              [pc |-> "received", appointment_data |-> appointment_data,
                               index |-> 0, status |-> 0, appointment |-> <<>>,
                               behind |-> InHandler(in_flight)])
    /\ UNCHANGED <<SCHEDULES_DB, CSV_FILE, APPOINTMENTS_DB, llm_client, conversations, reloaded, recording, last>>

\* create_new_appointment up to the call of book_slot: the provider is
\* looked up (404 when unknown)
EnterHandler ==
    /\ EventLoopFree(in_flight)
    /\ \E r \in DOMAIN in_flight :
          /\ in_flight[r].pc = "received"
          /\ in_flight' =
                IF get_provider_by_id(in_flight[r].appointment_data.provider_id) = <<>>
                THEN Responded(in_flight, r, 404)
                ELSE [in_flight EXCEPT ![r].pc = "book_slot"]
    /\ UNCHANGED <<SCHEDULES_DB, CSV_FILE, APPOINTMENTS_DB, llm_client, conversations, reloaded, recording, last>>

\* book_slot, the tests: the provider has schedules, and one of them has the
\* date and lists the time (400 when none)
CheckSlot ==
    /\ \E r \in DOMAIN in_flight :
          /\ in_flight[r].pc = "book_slot"
          /\ LET data == in_flight[r].appointment_data
                 schedules == get_provider_schedule(SCHEDULES_DB, data.provider_id)
                 hits == {i \in 1..Len(schedules) :
                            /\ schedules[i].date = data.date
                            /\ data.time \in Range(schedules[i].available_slots)}
             IN  in_flight' =
                    IF hits = {} THEN Responded(in_flight, r, 400)
                    ELSE [in_flight EXCEPT ![r].pc = "remove", ![r].index = Min(hits)]
    /\ UNCHANGED <<SCHEDULES_DB, CSV_FILE, APPOINTMENTS_DB, llm_client, conversations, reloaded, recording, last>>

\* book_slot, schedule.available_slots.remove(time): list.remove raises
\* ValueError when the time is not in the list (the request ends as a 500)
RemoveSlot ==
    /\ \E r \in DOMAIN in_flight :
          /\ in_flight[r].pc = "remove"
          /\ LET data == in_flight[r].appointment_data
                 slots == SCHEDULES_DB[data.provider_id][in_flight[r].index].available_slots
             IN  IF data.time \in Range(slots)
                 THEN /\ SCHEDULES_DB' =
                            [SCHEDULES_DB EXCEPT
                               ![data.provider_id][in_flight[r].index].available_slots =
                                   RemoveFirst(@, data.time)]
                      /\ in_flight' = [in_flight EXCEPT ![r].pc = "save"]
                 ELSE /\ SCHEDULES_DB' = SCHEDULES_DB
                      /\ in_flight' = Responded(in_flight, r, 500)
    /\ UNCHANGED <<CSV_FILE, APPOINTMENTS_DB, llm_client, conversations, reloaded, recording, last>>

\* book_slot, save_schedules_to_csv(): the file is written, or it is not
SaveSchedules ==
    /\ \E r \in DOMAIN in_flight :
          /\ in_flight[r].pc = "save"
          /\ \E io \in SaveOutcomes :
                CSV_FILE' = save_schedules_to_csv(SCHEDULES_DB, CSV_FILE, io).file
          /\ in_flight' = [in_flight EXCEPT ![r].pc = "store"]
    /\ UNCHANGED <<SCHEDULES_DB, APPOINTMENTS_DB, llm_client, conversations, reloaded, recording, last>>

\* create_appointment after book_slot returned True: the Appointment is
\* built and stored; then the .ics file is made and the handler returns
StoreAppointment ==
    /\ \E r \in DOMAIN in_flight :
          /\ in_flight[r].pc = "store"
          /\ \E appointment_id \in FreshIds(APPOINTMENTS_DB) :
                LET data == in_flight[r].appointment_data
                    provider == get_provider_by_id(data.provider_id)
                    appointment == [id |-> appointment_id,
                                    patient_name |-> data.patient_name,
                                    provider_id |-> data.provider_id,
                                    provider_name |-> provider[1].name,
                                    date |-> data.date,
                                    time |-> data.time,
                                    location |-> provider[1].location,
                                    reason |-> data.reason]
                IN  /\ APPOINTMENTS_DB' =
                          [i \in DOMAIN APPOINTMENTS_DB \cup {appointment_id} |->
                             IF i = appointment_id THEN appointment ELSE APPOINTMENTS_DB[i]]
                    /\ in_flight' =
                          [in_flight EXCEPT
                             ![r].pc = "responded",
                             ![r].appointment = <<appointment>>,
                             ![r].status = IF generate_ics_file_raises(appointment)
                                           THEN 500 ELSE 200]
    /\ UNCHANGED <<SCHEDULES_DB, CSV_FILE, llm_client, conversations, reloaded, recording, last>>

NextConcurrent ==
    \/ ReceiveRequest
    \/ EnterHandler
    \/ CheckSlot
    \/ RemoveSlot
    \/ SaveSchedules
    \/ StoreAppointment

SpecConcurrent == InitConcurrent /\ [][NextConcurrent]_vars

(***************************** appointment_voice.py ************************)
\* The recording loop of the voice front end.  frames is the number of
\* chunks appended to the list (the loop uses only its length).
CHUNK == 1024

RATE == 16000

RECORD_SECONDS == 5

\* volume > 300: speaking detected
SPEAKING_VOLUME == 300

\* silent_chunks > 100: the silence that ends the recording
SILENT_CHUNKS == 100

\* the mean absolute sample of one chunk, as the loop computes it
Volumes == {0, SPEAKING_VOLUME, SPEAKING_VOLUME + 1}

\* no record_audio call is running
NotRecording == [pc |-> "idle", frames |-> 0, silent_chunks |-> 0, started_speaking |-> FALSE, ended |-> None]

\* the locals as the loop is entered: the stream is open
EnterLoop == [pc |-> "loop", frames |-> 0, silent_chunks |-> 0, started_speaking |-> FALSE, ended |-> None]

\* len(frames) > (RATE * RECORD_SECONDS) / CHUNK, a comparison with the
\* quotient 78.125 of a true division
OverMaxLength(frames) == frames * CHUNK > RATE * RECORD_SECONDS

\* one pass of the while loop on a chunk of the given volume
record_audio_chunk(locals, volume) ==
    LET frames == locals.frames + 1
        started_speaking == locals.started_speaking \/ volume > SPEAKING_VOLUME
        silent_chunks == IF volume > SPEAKING_VOLUME THEN 0
                         ELSE IF locals.started_speaking THEN locals.silent_chunks + 1
                         ELSE locals.silent_chunks
        silence == volume <= SPEAKING_VOLUME /\ locals.started_speaking /\ silent_chunks > SILENT_CHUNKS
    IN  [pc |-> IF silence \/ OverMaxLength(frames) THEN "returned" ELSE "loop",
         frames |-> frames,
         silent_chunks |-> silent_chunks,
         started_speaking |-> started_speaking,
         ended |-> IF silence THEN "silence" ELSE IF OverMaxLength(frames) THEN "max_length" ELSE None]

InitRecording ==
    /\ CSV_FILE = CSV_FIXTURE
    /\ SCHEDULES_DB = load_schedules_from_csv(CSV_FIXTURE)
    /\ APPOINTMENTS_DB = <<>>
    /\ llm_client = TRUE
    /\ conversations = <<>>
    /\ reloaded = FALSE
    /\ in_flight = <<>>
    /\ recording = NotRecording
    /\ last = Idle

\* run() calls record_audio: the stream is opened, or audio.open raises
StartRecording ==
    /\ recording.pc \in {"idle", "returned"}
    /\ \E opened \in BOOLEAN :
          recording' = IF opened THEN EnterLoop ELSE [NotRecording EXCEPT !.pc = "raised"]
    /\ UNCHANGED <<SCHEDULES_DB, CSV_FILE, APPOINTMENTS_DB, llm_client, conversations, reloaded, in_flight, last>>

\* stream.read returns a chunk and the loop body runs on it
ReadChunk ==
    /\ recording.pc = "loop"
    /\ \E volume \in Volumes : recording' = record_audio_chunk(recording, volume)
    /\ UNCHANGED <<SCHEDULES_DB, CSV_FILE, APPOINTMENTS_DB, llm_client, conversations, reloaded, in_flight, last>>

\* stream.read raises: the finally clause closes the stream and the
\* exception leaves record_audio
ReadFails ==
    /\ recording.pc = "loop"
    /\ recording' = [recording EXCEPT !.pc = "raised"]
    /\ UNCHANGED <<SCHEDULES_DB, CSV_FILE, APPOINTMENTS_DB, llm_client, conversations, reloaded, in_flight, last>>

NextRecording ==
    \/ StartRecording
    \/ ReadChunk
    \/ ReadFails

SpecRecording == InitRecording /\ [][NextRecording]_vars

\* stream.read blocks until a chunk is there: it returns or raises
SpecRecordingFair == SpecRecording /\ WF_vars(ReadChunk \/ ReadFails)

(***************************** properties **********************************)
\* the free slots the schedule holds for a provider and a date, as a set
Free(db, provider_id, date) == Range(get_available_slots(db, provider_id, date))

InDirectory(provider_id) == \E i \in 1..Len(PROVIDERS_DB) : PROVIDERS_DB[i].id = provider_id

\* the schedules as loaded from the shipped file
FIXTURE_DB == load_schedules_from_csv(CSV_FIXTURE)

AllProviderIds == ProviderIds \cup DOMAIN FIXTURE_DB

\* the slots of the shipped file
FixtureSlots ==
    {s \in [provider_id : AllProviderIds, date : Dates, time : Times] :
        s.time \in Free(FIXTURE_DB, s.provider_id, s.date)}

\* a time of the shipped file that its entry no longer lists: it has been
\* booked (or the entry was lost with the file)
Gone(db, provider_id, date, time) ==
    /\ Slot(provider_id, date, time) \in FixtureSlots
    /\ time \notin Free(db, provider_id, date)

SlotKey(a) == <<a.provider_id, a.date, a.time>>

----
C1_Step ==
    (last'.op = "create_appointment" /\ last'.result # <<>>) =>
        LET req == last'.request
            a == last'.result[1]
            before == get_available_slots(SCHEDULES_DB, req.provider_id, req.date)
            after == get_available_slots(SCHEDULES_DB', req.provider_id, req.date)
        IN  /\ InDirectory(req.provider_id)
            /\ req.time \in Range(before)
            /\ req.time \notin Range(after)
            /\ Len(after) = Len(before) - 1
            /\ a.id \notin DOMAIN APPOINTMENTS_DB
            /\ \E i \in 1..Len(PROVIDERS_DB) :
                  /\ PROVIDERS_DB[i].id = req.provider_id
                  /\ a.provider_name = PROVIDERS_DB[i].name
                  /\ a.location = PROVIDERS_DB[i].location
            /\ a.patient_name = req.patient_name
            /\ a.provider_id = req.provider_id
            /\ a.date = req.date
            /\ a.time = req.time
            /\ a.reason = req.reason
            /\ DOMAIN APPOINTMENTS_DB' = DOMAIN APPOINTMENTS_DB \cup {a.id}
            /\ get_appointment(APPOINTMENTS_DB', a.id) = <<a>>

\* C1: create_appointment returns an appointment only if the provider id is
\* in the directory and the time is free for that provider and date when it
\* is called; the slot is then removed and a record with a fresh id, the
\* provider's name and location and the request's patient_name, date, time
\* and reason is stored and is what get_appointment(id) returns.
C1_CreateOnlyIfFree == [][C1_Step]_vars

C1_Witness == last.op = "create_appointment" /\ last.result # <<>>

----
C2_BookStep ==
    (/\ last'.op = "book_slot"
     /\ last'.slot.time \in Free(SCHEDULES_DB, last'.slot.provider_id, last'.slot.date)) =>
        LET b == last'.slot
        IN  /\ last'.result = TRUE
            /\ DOMAIN SCHEDULES_DB' = DOMAIN SCHEDULES_DB
            /\ \A p \in DOMAIN SCHEDULES_DB :
                  /\ Len(SCHEDULES_DB'[p]) = Len(SCHEDULES_DB[p])
                  /\ \A i \in 1..Len(SCHEDULES_DB[p]) :
                        LET old == SCHEDULES_DB[p][i]
                            new == SCHEDULES_DB'[p][i]
                        IN  IF p = b.provider_id /\ old.date = b.date
                            THEN /\ new.date = old.date
                                 /\ new.provider_id = old.provider_id
                                 /\ new.available_slots =
                                      SelectSeq(old.available_slots, LAMBDA t : t # b.time)
                                 /\ Len(new.available_slots) = Len(old.available_slots) - 1
                            ELSE new = old

\* a time that an entry does not list is not listed after the step either
C2_StaysGone ==
    \A s \in FixtureSlots :
        Gone(SCHEDULES_DB, s.provider_id, s.date, s.time) =>
            Gone(SCHEDULES_DB', s.provider_id, s.date, s.time)

\* C2 as amended: booking a listed time returns true and removes exactly
\* that slot, every other slot, date and provider unchanged, and no
\* get_available_slots before the next cache reset lists the time again.
C2_BookRemovesExactlyOne ==
    [][C2_BookStep /\ (last'.op # "clear_schedule_cache" => C2_StaysGone)]_vars

\* C2 as stated: every later get_available_slots no longer lists the time
C2_Original == [][C2_StaysGone]_vars

C2_Witness ==
    /\ last.op = "book_slot" /\ last.result = TRUE
    /\ last.slot.provider_id = "p001" /\ last.slot.date = D0115
    /\ Free(SCHEDULES_DB, "p001", D0115) # {}

----
C3_Step ==
    /\ ~reloaded' =>
          \A i, j \in DOMAIN APPOINTMENTS_DB' :
              i # j => SlotKey(APPOINTMENTS_DB'[i]) # SlotKey(APPOINTMENTS_DB'[j])
    /\ (/\ ~reloaded'
        /\ last'.op \in {"create_appointment", "POST /appointments"}
        /\ Gone(SCHEDULES_DB, last'.request.provider_id, last'.request.date,
                last'.request.time)) =>
          (last'.result = <<>> /\ APPOINTMENTS_DB' = APPOINTMENTS_DB)
    /\ (/\ ~reloaded'
        /\ last'.op = "book_slot"
        /\ Gone(SCHEDULES_DB, last'.slot.provider_id, last'.slot.date, last'.slot.time)) =>
          (last'.result = FALSE /\ APPOINTMENTS_DB' = APPOINTMENTS_DB)

\* C3: as long as the cache has not been reset, no two stored appointments
\* have the same provider, date and time, and an attempt to book a slot
\* that was booked before fails and stores no appointment.
C3_NoDoubleBooking == [][C3_Step]_vars

C3_Witness ==
    /\ ~reloaded
    /\ last.op = "create_appointment" /\ last.result = <<>>
    /\ Cardinality(DOMAIN APPOINTMENTS_DB) = 2
    /\ \E i \in DOMAIN APPOINTMENTS_DB :
          SlotKey(APPOINTMENTS_DB[i]) =
              <<last.request.provider_id, last.request.date, last.request.time>>

----
C4_Step ==
    (last'.op = "create_appointment" /\ last'.result = <<>>) =>
        UNCHANGED <<APPOINTMENTS_DB, SCHEDULES_DB, CSV_FILE>>

\* C4: a create_appointment that returns no appointment leaves the
\* appointment map and every schedule entry as they were, also when the id
\* is unknown to the directory and the schedule store has entries for it.
C4_FailedCreateChangesNothing == [][C4_Step]_vars

C4_Witness ==
    /\ last.op = "create_appointment" /\ last.result = <<>>
    /\ ~InDirectory(last.request.provider_id)
    /\ last.request.time \in Free(SCHEDULES_DB, last.request.provider_id, last.request.date)

----
C5_Step ==
    last'.op = "book_slot" =>
        LET b == last'.slot
            no_schedule == b.provider_id \notin DOMAIN SCHEDULES_DB
            no_date == /\ ~no_schedule
                       /\ \A i \in 1..Len(SCHEDULES_DB[b.provider_id]) :
                             SCHEDULES_DB[b.provider_id][i].date # b.date
            not_listed == /\ ~no_schedule /\ ~no_date
                          /\ b.time \notin Free(SCHEDULES_DB, b.provider_id, b.date)
        IN  /\ (no_schedule \/ no_date \/ not_listed) => last'.result = FALSE
            /\ last'.result = FALSE => UNCHANGED <<SCHEDULES_DB, CSV_FILE>>

\* C5: book_slot returns the same false and leaves every schedule entry
\* unchanged when the provider has no schedule, when the provider has no
\* entry for the date and when the time is not in the date's list.
C5_FailedBookChangesNothing == [][C5_Step]_vars

C5_Witness ==
    /\ last.op = "book_slot" /\ last.result = FALSE
    /\ Gone(SCHEDULES_DB, last.slot.provider_id, last.slot.date, last.slot.time)

----
C6_Step ==
    last'.op = "POST /appointments" =>
        LET req == last'.request
        IN  /\ last'.status = 404 <=> ~InDirectory(req.provider_id)
            /\ (/\ InDirectory(req.provider_id)
                /\ req.time \notin Free(SCHEDULES_DB, req.provider_id, req.date)) =>
                  last'.status = 400
            /\ last'.status = 200 =>
                  /\ last'.result # <<>>
                  /\ last'.result[1].id \notin DOMAIN APPOINTMENTS_DB
                  /\ get_appointment(APPOINTMENTS_DB', last'.result[1].id) = last'.result

\* C6: POST /appointments answers 404 exactly when the provider id is not
\* in the directory, 400 when the provider exists and the slot cannot be
\* booked, and success only when an appointment record was stored.
C6_PostStatus == [][C6_Step]_vars

C6_Witness ==
    /\ last.op = "POST /appointments" /\ last.status = 400
    /\ Gone(SCHEDULES_DB, last.request.provider_id, last.request.date, last.request.time)

----
\* C7: after clear_schedule_cache the availability of every provider and
\* date is that of the shipped file again, whatever was booked before.
C7_ResetRestoresFixture ==
    last.op = "clear_schedule_cache" =>
        \A p \in AllProviderIds, d \in Dates :
            get_available_slots(SCHEDULES_DB, p, d) = get_available_slots(FIXTURE_DB, p, d)

----
\* C8: when the write of the file fails during book_slot, book_slot still
\* returns true, the slot stays removed in memory, the record of a
\* create_appointment is stored, and the write is attempted once only.
C8_WriteFailureKeepsBooking ==
    /\ (last.op = "book_slot" /\ last.saves > 0 /\ ~last.saved) =>
          /\ last.result = TRUE
          /\ last.slot.time \notin Free(SCHEDULES_DB, last.slot.provider_id, last.slot.date)
          /\ last.saves = 1
    /\ (last.op = "book_slot" /\ last.result = TRUE) => last.saves = 1
    /\ (last.op = "create_appointment" /\ last.saves > 0 /\ ~last.saved) =>
          /\ last.result # <<>>
          /\ get_appointment(APPOINTMENTS_DB, last.result[1].id) = last.result
          /\ last.request.time \notin
                Free(SCHEDULES_DB, last.request.provider_id, last.request.date)
          /\ last.saves = 1

C8_Witness ==
    /\ last.op = "create_appointment" /\ last.saves = 1 /\ ~last.saved
    /\ last.result # <<>>

(***************************** conversation turns **************************)
Turn == last.op = "POST /conversation"

\* a tool call that returned a payload without an error
Succeeded(call) == ~call.raised /\ "error" \notin DOMAIN call.result

\* a tool call that returned a payload with an error
DomainError(call) == ~call.raised /\ "error" \in DOMAIN call.result

StateOf(snapshot) == snapshot.conversation[1].state

ContextOf(snapshot) == snapshot.conversation[1].context

C9_CallSetsState(call) ==
    LET context == ContextOf(call.after)
    IN  /\ call.function = "identify_provider" =>
            /\ StateOf(call.after) = PROVIDER_MATCHED
            /\ {"health_issue", "provider_id", "provider_name"} \subseteq DOMAIN context
            /\ context["health_issue"] = call.arguments[1]["health_issue"]
            /\ context["provider_id"] = call.result.provider_id
            /\ context["provider_name"] = call.result.provider_name
        /\ call.function = "check_availability" =>
            /\ DOMAIN call.result.availability # {}
            /\ StateOf(call.after) = AVAILABILITY_CHECKED
            /\ "availability" \in DOMAIN context
            /\ Content(call.after.db, context["availability"]) = call.result.availability
        /\ call.function = "create_appointment" =>
            /\ StateOf(call.after) = APPOINTMENT_CONFIRMED
            /\ "appointment_id" \in DOMAIN context
            /\ context["appointment_id"] = call.result.appointment_id
            /\ call.result.appointment_id \in DOMAIN call.after.apps

\* C9: in every turn, each tool call that succeeded left the conversation in
\* the state of its function (identify_provider: PROVIDER_MATCHED, with
\* health_issue, provider_id and provider_name in the context;
\* check_availability: AVAILABILITY_CHECKED, with the non-empty availability
\* it returned in the context; create_appointment: APPOINTMENT_CONFIRMED, with
\* the id of the stored appointment in the context), and the state a
\* completed turn reports is the state left by its last successful tool
\* call, or the state before the turn when no tool call succeeded.
C9_ToolCallSetsState ==
    Turn =>
      LET ok == {i \in 1..Len(last.calls) : Succeeded(last.calls[i])}
      IN  /\ \A i \in ok : C9_CallSetsState(last.calls[i])
          /\ last.status = 200 =>
               /\ last.response[1].state =
                     IF ok = {} THEN last.state_before
                     ELSE StateOf(last.calls[Max(ok)].after)
               /\ get_state(conversations, last.conversation_id) = last.response[1].state

C9_Witness ==
    /\ Turn
    /\ last.status = 200
    /\ Len(last.calls) = 2
    /\ Succeeded(last.calls[1]) /\ last.calls[1].function = "check_availability"
    /\ DomainError(last.calls[2])
    /\ last.state_before = PROVIDER_MATCHED
    /\ last.response[1].state = AVAILABILITY_CHECKED

\* the four cases of a domain error, told from what the call was given and
\* what it found: no provider for the specialty resolved, no free slot of the
\* provider in the part of the day asked for, a booking that cannot be made,
\* a function name that is not one of the three
DomainFailure(call) ==
    /\ call.arguments # <<>>
    /\ LET arguments == call.arguments[1]
           db == call.before.db
       IN  \/ /\ call.function = "identify_provider"
              /\ "health_issue" \in DOMAIN arguments
              /\ match_provider_for_issue(arguments["health_issue"]) = <<>>
           \/ /\ call.function = "check_availability"
              /\ LET schedules == get_provider_schedule(db, arguments["provider_id"])
                     free == UNION {Range(schedules[i].available_slots) : i \in 1..Len(schedules)}
                     time_preference == IF "time_preference" \in DOMAIN arguments
                                        THEN arguments["time_preference"] ELSE "any"
                 IN  IF time_preference = "any" THEN free = {}
                     ELSE /\ \A slot \in free : HourParses(slot)
                          /\ time_preference = "morning" => \A slot \in free : HourOf(slot) >= 12
                          /\ time_preference = "afternoon" => \A slot \in free : HourOf(slot) < 12
           \/ /\ call.function = "create_appointment"
              /\ {"patient_name", "provider_id", "date", "time"} \subseteq DOMAIN arguments
              /\ ~ /\ InDirectory(arguments["provider_id"])
                   /\ Bookable(db, arguments["provider_id"], arguments["date"], arguments["time"])
           \/ call.function \notin {"identify_provider", "check_availability", "create_appointment"}

\* C10: in every turn, a tool call in one of the four domain-error cases
\* returns a payload with an "error" field and raises nothing; a call that
\* returned such a payload changed neither the conversation (state, context,
\* messages) nor the schedules nor the file nor the appointment map; and a
\* turn with such a call in which no tool call raised makes the second LLM
\* call, and answers 200 with a response unless that LLM call itself failed.
C10_DomainErrorIsReturned ==
    Turn =>
      /\ \A i \in 1..Len(last.calls) :
           LET call == last.calls[i]
           IN  /\ DomainFailure(call) => DomainError(call)
               /\ DomainError(call) => call.after = call.before /\ call.saves = 0
      /\ ( /\ \E i \in 1..Len(last.calls) : DomainError(last.calls[i])
           /\ \A i \in 1..Len(last.calls) : ~last.calls[i].raised )
         => /\ last.llm_calls = 2
            /\ ~last.llm_failed =>
                 /\ last.status = 200
                 /\ last.response # <<>>
                 /\ get_messages(conversations, last.conversation_id)
                      [Len(get_messages(conversations, last.conversation_id))]
                      = [role |-> "assistant", content |-> last.response[1].response]

C10_Witness ==
    /\ Turn
    /\ last.status = 200
    /\ last.llm_calls = 2
    /\ Len(last.calls) = 2
    /\ DomainError(last.calls[1]) /\ last.calls[1].function = "create_appointment"
    /\ Succeeded(last.calls[2])

\* the list sent to the second LLM call: the list sent to the first, then
\* for each tool call asked for, in order, the call and at once its result
SentInOrder(requested) ==
    LET first == last.sent[1]
        second == last.sent[2]
    IN  /\ Len(second) = Len(first) + 2 * Len(requested)
        /\ SubSeq(second, 1, Len(first)) = first
        /\ \A i \in 1..Len(requested) :
             /\ second[Len(first) + 2 * i - 1] =
                  [role |-> "assistant", content |-> None, tool_calls |-> <<requested[i]>>]
             /\ second[Len(first) + 2 * i] =
                  [role |-> "tool", tool_call_id |-> requested[i].id,
                   content |-> last.calls[i].result]

\* the tool calls made are those asked for, once each and in order: each
\* finds what the one before left, and the stores are as the last left them
RunOnceInOrder(requested) ==
    /\ Len(last.calls) = Len(requested)
    /\ \A i \in 1..Len(requested) :
         /\ last.calls[i].function = requested[i].function
         /\ last.calls[i].arguments = json_loads(requested[i].arguments)
         /\ i > 1 => last.calls[i].before = last.calls[i - 1].after
    /\ LET after == last.calls[Len(requested)].after
       IN  /\ SCHEDULES_DB = after.db
           /\ CSV_FILE = after.file
           /\ APPOINTMENTS_DB = after.apps

\* C11: in every turn whose first LLM call answered, the LLM is called once
\* when the answer asks for no tool call, and its text is the response;
\* otherwise it is called twice, every tool call asked for is made once, in
\* the order asked, each call message is followed at once by its result in
\* the list sent to the second call, and nothing the second answer asks for
\* is executed.
C11_ToolCallsRunOnceInOrder ==
    (Turn /\ last.first # <<>> /\ ~last.first[1].failed) =>
      LET requested == extract_tool_calls(last.first[1])
      IN  IF requested = <<>>
          THEN /\ last.llm_calls = 1
               /\ last.status = 200
               /\ last.response[1].response = extract_message_content(last.first[1])
          ELSE /\ last.llm_calls = 2
               /\ RunOnceInOrder(requested)
               /\ SentInOrder(requested)

\* a turn in which an LLM call raised
LLMCallFailed(turn) == turn.op = "POST /conversation" /\ turn.llm_failed

C12_Step ==
    (last' # last /\ LLMCallFailed(last')) =>
      LET id == last'.conversation_id
          calls == last'.calls
          stored == IF id \in DOMAIN conversations THEN conversations[id].messages ELSE <<>>
      IN  /\ last'.status = 500
          /\ last'.response = <<>>
          /\ id \in DOMAIN conversations'
          \* the user message is the last one stored: no assistant message
          /\ conversations'[id].messages =
                Append(stored, [role |-> "user", content |-> last'.request.message])
          /\ \A c \in DOMAIN conversations : c # id => conversations'[c] = conversations[c]
          /\ last'.llm_calls = 1 =>
                /\ calls = <<>>
                /\ conversations'[id].state = get_state(conversations, id)
                /\ conversations'[id].context =
                      (IF id \in DOMAIN conversations THEN conversations[id].context ELSE <<>>)
                /\ SCHEDULES_DB' = SCHEDULES_DB
                /\ CSV_FILE' = CSV_FILE
                /\ APPOINTMENTS_DB' = APPOINTMENTS_DB
          /\ last'.llm_calls = 2 =>
                /\ calls # <<>>
                /\ Snapshot(conversations', id, SCHEDULES_DB', CSV_FILE', APPOINTMENTS_DB')
                      = calls[Len(calls)].after
                /\ \A i \in 1..Len(calls) :
                     (Succeeded(calls[i]) /\ calls[i].function = "create_appointment") =>
                       /\ calls[i].result.appointment_id \in DOMAIN APPOINTMENTS_DB'
                       /\ ~Bookable(SCHEDULES_DB', calls[i].arguments[1]["provider_id"],
                                    calls[i].arguments[1]["date"], calls[i].arguments[1]["time"])

\* C12: a turn in which an LLM call raises answers an error and rolls
\* nothing back: the user message is stored and is the last message of the
\* conversation (no assistant message follows it); when the first call raises
\* nothing else has changed; when the second raises, the conversation's state
\* and context, the schedules, the file and the appointments are as the last
\* tool call left them, and every appointment a tool call booked is stored
\* with its slot taken.
C12_LLMFailureKeepsEffects == [][C12_Step]_vars

C12_Witness ==
    /\ Turn
    /\ last.status = 500
    /\ last.second # <<>> /\ last.second[1].failed
    /\ \E i \in 1..Len(last.calls) :
          /\ Succeeded(last.calls[i])
          /\ last.calls[i].function = "create_appointment"
          /\ last.calls[i].result.appointment_id \in DOMAIN APPOINTMENTS_DB
    /\ get_state(conversations, last.conversation_id) = APPOINTMENT_CONFIRMED

\* a turn asked with a conversation id that no conversation has, the LLM
\* client being configured
UnknownConversation ==
    /\ last' # last
    /\ last'.op = "POST /conversation"
    /\ llm_client
    /\ last'.request.conversation_id # 0
    /\ last'.request.conversation_id \notin DOMAIN conversations

C13_Step ==
    UnknownConversation =>
      /\ last'.status = 404
      /\ last'.llm_calls = 0
      /\ conversations' = conversations

\* C13: a POST /conversation with a conversation_id that no conversation has
\* answers 404, calls no LLM, creates no conversation and stores no message.
C13_UnknownConversationIs404 == [][C13_Step]_vars

C14_Step ==
    (last' # last /\ ~llm_client) =>
      /\ last'.op = "POST /conversation" =>
           /\ last'.status = 500
           /\ last'.response = <<>>
           /\ last'.llm_calls = 0
           /\ last'.calls = <<>>
           /\ UNCHANGED <<conversations, SCHEDULES_DB, CSV_FILE, APPOINTMENTS_DB>>
      /\ ( /\ last'.op = "POST /appointments"
           /\ InDirectory(last'.request.provider_id)
           /\ Bookable(SCHEDULES_DB, last'.request.provider_id, last'.request.date,
                       last'.request.time) ) =>
           /\ last'.status = 200
           /\ last'.result # <<>>
           /\ get_appointment(APPOINTMENTS_DB', last'.result[1].id) = last'.result
           /\ last'.result[1].id \notin DOMAIN APPOINTMENTS_DB
      /\ ( /\ last'.op = "GET /appointments/{id}"
           /\ last'.appointment_id \in DOMAIN APPOINTMENTS_DB ) =>
           /\ last'.status = 200
           /\ last'.result = <<APPOINTMENTS_DB[last'.appointment_id]>>

\* C14: with no LLM client every POST /conversation answers 500, having
\* called no LLM and run no tool, and leaves the conversation map (and the
\* schedules, the file and the appointments) unchanged, while POST
\* /appointments on a free slot of a known provider still stores a new
\* appointment and GET /appointments/{id} still returns a stored one.
C14_UnconfiguredLLM == [][C14_Step]_vars

C14_Witness ==
    /\ ~llm_client
    /\ last.op = "POST /conversation"
    /\ last.status = 500
    /\ last.request.conversation_id = 0
    /\ conversations = <<>>
    /\ APPOINTMENTS_DB # <<>>

\* a call of the manager on a conversation id that no conversation has
OnUnknownId(op) ==
    /\ last' # last
    /\ last'.op = op
    /\ last'.conversation_id \notin DOMAIN conversations

C15_Step ==
    /\ \A op \in {"add_message", "set_state", "update_context"} :
         OnUnknownId(op) => last'.raised /\ conversations' = conversations
    /\ OnUnknownId("get_messages") => last'.result = <<>> /\ conversations' = conversations
    /\ OnUnknownId("get_state") => last'.result = INITIAL /\ conversations' = conversations
    /\ OnUnknownId("get_context") => last'.result = <<>> /\ conversations' = conversations

\* C15: on a conversation id that no conversation has, add_message,
\* set_state and update_context raise and leave the conversation map as it
\* was; get_messages returns the empty list, get_state INITIAL and
\* get_context None, and they too leave the map as it was.
C15_UnknownIdOperations == [][C15_Step]_vars

C15_Witness ==
    /\ last.op = "update_context"
    /\ last.raised
    /\ last.conversation_id \notin DOMAIN conversations
    /\ conversations # <<>>

C16_Step ==
    (last' # last /\ last'.op = "create_conversation") =>
      LET id == last'.result
      IN  /\ id \notin DOMAIN conversations
          /\ DOMAIN conversations' = DOMAIN conversations \cup {id}
          /\ conversations'[id].state = INITIAL
          /\ conversations'[id].messages = <<>>
          /\ conversations'[id].context = <<>>
          /\ get_state(conversations', id) = INITIAL
          /\ get_messages(conversations', id) = <<>>
          /\ \A c \in DOMAIN conversations : conversations'[c] = conversations[c]

\* C16: create_conversation returns an id that no conversation had; the new
\* conversation is in INITIAL with no message and an empty context, and
\* every conversation there was is unchanged.
C16_CreateConversation == [][C16_Step]_vars

C16_Witness ==
    /\ last.op = "create_conversation"
    /\ \E c \in DOMAIN conversations :
          /\ c # last.result
          /\ conversations[c].state # INITIAL
          /\ conversations[c].messages # <<>>
          /\ conversations[c].context # <<>>

C17_Step ==
    ( /\ last' # last
      /\ last'.op = "set_state"
      /\ last'.conversation_id \in DOMAIN conversations ) =>
      LET id == last'.conversation_id
      IN  /\ ~last'.raised
          /\ get_state(conversations', id) = last'.state
          /\ conversations' = [conversations EXCEPT ![id].state = last'.state]
          /\ conversations'[id].messages = conversations[id].messages
          /\ conversations'[id].context = conversations[id].context

\* C17: set_state on an existing conversation accepts every state, whatever
\* the state it is in (forward, backward or the same); get_state then returns
\* the state set, and the messages and the context of the conversation and
\* every other conversation are unchanged.
C17_SetStateAnyTransition == [][C17_Step]_vars

\* a transition backward, over the whole range, on a conversation with
\* messages and context, beside another conversation
C17_Witness ==
    /\ last.op = "set_state"
    /\ ~last.raised
    /\ last.old_state = APPOINTMENT_CONFIRMED
    /\ last.state = INITIAL
    /\ conversations[last.conversation_id].messages # <<>>
    /\ conversations[last.conversation_id].context # <<>>
    /\ Cardinality(DOMAIN conversations) = 2

\* the suggested actions of a completed turn are those of the state the
\* conversation is in when the turn ends
ActionsOfFinalState ==
    (Turn /\ last.status = 200) =>
      /\ last.response[1].state = get_state(conversations, last.conversation_id)
      /\ last.response[1].suggested_actions =
            get_suggested_actions(get_state(conversations, last.conversation_id))

\* the lists of two different states differ, and the list of
\* APPOINTMENT_CONFIRMED offers the .ics download
ListsDiffer ==
    /\ \A s, t \in ConversationState :
         s # t => get_suggested_actions(s) # get_suggested_actions(t)
    /\ "Download .ics file" \in Range(get_suggested_actions(APPOINTMENT_CONFIRMED))

ContextBefore(call) == ContextOf(call.before)

\* identify_provider on the rash text
OnRash(call) ==
    /\ call.function = "identify_provider"
    /\ call.arguments # <<>>
    /\ "health_issue" \in DOMAIN call.arguments[1]
    /\ call.arguments[1]["health_issue"] = RASH_ISSUE

\* check_availability, with no time preference, on the provider matched,
\* who has a free slot
OnMatchedProvider(call) ==
    /\ call.function = "check_availability"
    /\ call.arguments # <<>>
    /\ DOMAIN call.arguments[1] = {"provider_id"}
    /\ "provider_id" \in DOMAIN ContextBefore(call)
    /\ call.arguments[1]["provider_id"] = ContextBefore(call)["provider_id"]
    /\ LET schedules == get_provider_schedule(call.before.db, call.arguments[1]["provider_id"])
       IN  \E i \in 1..Len(schedules) : schedules[i].available_slots # <<>>

\* create_appointment for John Doe, right after a check_availability of the
\* provider matched that succeeded, with a date and a time of the map returned
OnOfferedSlot(check, call) ==
    /\ Succeeded(check)
    /\ check.function = "check_availability"
    /\ call.function = "create_appointment"
    /\ call.arguments # <<>>
    /\ {"patient_name", "provider_id", "date", "time"} \subseteq DOMAIN call.arguments[1]
    /\ call.arguments[1]["patient_name"] = "John Doe"
    /\ "provider_id" \in DOMAIN ContextBefore(call)
    /\ call.arguments[1]["provider_id"] = ContextBefore(call)["provider_id"]
    /\ call.arguments[1]["provider_id"] = check.result.provider_id
    /\ call.arguments[1]["date"] \in DOMAIN check.result.availability
    /\ call.arguments[1]["time"] \in Range(check.result.availability[call.arguments[1]["date"]])

\* C19: in every turn, identify_provider on "I have a rash on my arm"
\* matches a Dermatologist; check_availability on the provider matched, when
\* that provider has a free slot, returns a non-empty map; a
\* create_appointment for John Doe that follows with a date and a time of
\* the map succeeds and leaves the conversation in APPOINTMENT_CONFIRMED, and
\* a turn that ends with it suggests "Download .ics file".
C19_Scenario ==
    Turn =>
      \A i \in 1..Len(last.calls) :
        LET call == last.calls[i]
        IN  /\ OnRash(call) =>
                 /\ Succeeded(call)
                 /\ call.result.specialty = "Dermatologist"
                 /\ ContextOf(call.after)["provider_id"] = call.result.provider_id
            /\ OnMatchedProvider(call) =>
                 /\ Succeeded(call)
                 /\ DOMAIN call.result.availability # {}
            /\ (i > 1 /\ OnOfferedSlot(last.calls[i - 1], call)) =>
                 /\ Succeeded(call)
                 /\ StateOf(call.after) = APPOINTMENT_CONFIRMED
                 /\ (i = Len(last.calls) /\ last.status = 200) =>
                       /\ last.response[1].state = APPOINTMENT_CONFIRMED
                       /\ "Download .ics file" \in Range(last.response[1].suggested_actions)

\* the places of the table whose keyword the text contains, capitals and
\* small letters taken as the same
KeywordsIn(health_issue) ==
    LET lower == Lower(health_issue)
    IN  {i \in 1..Len(ISSUE_TO_SPECIALTY) : Contains(lower, ISSUE_TO_SPECIALTY[i].keyword)}

Matched == last.op = "match_provider_for_issue"

\* with no keyword in the text: General Practitioner, confidence 0.6
FallsBack(hits) ==
    hits = {} =>
      /\ last.result # <<>>
      /\ last.result[1].specialty = GENERAL_PRACTITIONER
      /\ last.result[1].confidence = 6

\* the specialty returned is the one bound to the keyword at place i
Bound(i) ==
    /\ last.result # <<>>
    /\ last.result[1].specialty = ISSUE_TO_SPECIALTY[i].specialty
    /\ last.result[1].confidence = 9

AnyKeywordWins(hits) == FallsBack(hits) /\ \A i \in hits : Bound(i)

FirstKeywordWins(hits) ==
    /\ FallsBack(hits)
    /\ hits # {} =>
         /\ Bound(Min(hits))
         /\ last.result[1].match_reason.keyword = <<ISSUE_TO_SPECIALTY[Min(hits)].keyword>>

SeveralSpecialties(hits) ==
    \E i, j \in hits : ISSUE_TO_SPECIALTY[i].specialty # ISSUE_TO_SPECIALTY[j].specialty

TableOrderDecides(hits) ==
    SeveralSpecialties(hits) =>
      /\ last.result # <<>>
      /\ last.result[1].specialty = ISSUE_TO_SPECIALTY[Min(hits)].specialty

\* C21: when the lower-cased issue text contains keywords bound to different
\* specialties, the specialty resolved is the one of the keyword that comes
\* first in the keyword table, in capitals as in small letters and wherever
\* the keywords stand in the text.
C21_TableOrderDecides == Matched => TableOrderDecides(KeywordsIn(last.health_issue))

\* a text in capitals with keywords of two specialties, the later one of the
\* table standing first in the text
C21_Witness ==
    /\ Matched
    /\ \E i, j \in 1..Len(ISSUE_TO_SPECIALTY) :
          /\ i < j
          /\ ISSUE_TO_SPECIALTY[i].specialty # ISSUE_TO_SPECIALTY[j].specialty
          /\ last.health_issue =
                Upper(ISSUE_TO_SPECIALTY[j].keyword \o <<" ", "a", "n", "d", " ">>
                      \o ISSUE_TO_SPECIALTY[i].keyword)
          /\ last.result # <<>>
          /\ last.result[1].specialty = ISSUE_TO_SPECIALTY[i].specialty

\* the specialty the keyword table resolves a text to
SpecialtyOf(hits) ==
    IF hits = {} THEN GENERAL_PRACTITIONER ELSE ISSUE_TO_SPECIALTY[Min(hits)].specialty

Resolved(health_issue) == SpecialtyOf(KeywordsIn(health_issue))

\* the places of the directory that hold a provider of the specialty
PlacesOf(directory, specialty) ==
    {i \in 1..Len(directory) : directory[i].specialty = specialty}

\* a has the greater pair (rating, experience_years)
PairGreater(a, b) ==
    \/ a.rating > b.rating
    \/ a.rating = b.rating /\ a.experience_years > b.experience_years

\* the provider with that id is one of the specialty that none of it beats
BestOf(directory, specialty, id) ==
    \E i \in PlacesOf(directory, specialty) :
       /\ directory[i].id = id
       /\ \A j \in PlacesOf(directory, specialty) : ~PairGreater(directory[j], directory[i])

SelectsBest(directory, specialty, selected, id, selected_specialty) ==
    IF PlacesOf(directory, specialty) = {}
    THEN selected = <<>>
    ELSE /\ selected # <<>>
         /\ selected_specialty = specialty
         /\ BestOf(directory, specialty, id)

\* C22: for a specialty with at least one provider in the directory,
\* get_best_provider_for_specialty and match_provider_for_issue select a
\* provider of that specialty that no provider of the specialty beats on the
\* pair (rating, experience_years); for a specialty with no provider they
\* return nothing.
C22_BestProviderOfSpecialty ==
    /\ last.op = "get_best_provider_for_specialty" =>
          SelectsBest(last.PROVIDERS_DB, last.specialty, last.result,
                      IF last.result = <<>> THEN "" ELSE last.result[1].id,
                      IF last.result = <<>> THEN "" ELSE last.result[1].specialty)
    /\ last.op = "match_provider_for_issue_in" =>
          \A specialty \in {Resolved(last.health_issue)} :
             SelectsBest(last.PROVIDERS_DB, specialty, last.result,
                         IF last.result = <<>> THEN "" ELSE last.result[1].provider_id,
                         IF last.result = <<>> THEN "" ELSE last.result[1].specialty)

\* two providers of the specialty with the same rating, the more experienced
\* one later in the directory, and the matcher selecting it
C22_Witness ==
    /\ last.op = "match_provider_for_issue_in"
    /\ last.result # <<>>
    /\ \E i, j \in PlacesOf(last.PROVIDERS_DB, Resolved(last.health_issue)) :
          /\ i < j
          /\ last.PROVIDERS_DB[i].rating = last.PROVIDERS_DB[j].rating
          /\ last.PROVIDERS_DB[i].experience_years < last.PROVIDERS_DB[j].experience_years
          /\ last.result[1].provider_id = last.PROVIDERS_DB[j].id

\* a keyword of a specialty that the directory does not hold, while it holds
\* providers of other specialties: no result
C22_WitnessNone ==
    /\ last.op = "match_provider_for_issue_in"
    /\ last.PROVIDERS_DB # <<>>
    /\ PlacesOf(last.PROVIDERS_DB, Resolved(last.health_issue)) = {}
    /\ last.result = <<>>

\* the place in the directory of the provider an option names
PlaceOfOption(directory, option) ==
    CHOOSE i \in 1..Len(directory) : directory[i].id = option.provider_id

\* the options are providers of the specialty, each one once, the greatest
\* pairs (rating, experience_years) first and none left out that beats one
\* listed
RankedOptions(directory, specialty, options) ==
    /\ \A k \in 1..Len(options) :
          /\ options[k].specialty = specialty
          /\ \E i \in PlacesOf(directory, specialty) : directory[i].id = options[k].provider_id
          /\ options[k].confidence = 9 - (k - 1)
    /\ \A k, l \in 1..Len(options) :
          k < l =>
            /\ options[k].provider_id # options[l].provider_id
            /\ ~PairGreater(directory[PlaceOfOption(directory, options[l])],
                            directory[PlaceOfOption(directory, options[k])])
            /\ options[k].confidence >= options[l].confidence
    /\ \A j \in PlacesOf(directory, specialty) :
          \/ \E k \in 1..Len(options) : options[k].provider_id = directory[j].id
          \/ \A k \in 1..Len(options) :
                ~PairGreater(directory[j], directory[PlaceOfOption(directory, options[k])])

OptionsOf(directory, specialty, max_results, answer) ==
    /\ ~answer.raised
    /\ Len(answer.result) = Min({max_results, Cardinality(PlacesOf(directory, specialty))})
    /\ RankedOptions(directory, specialty, answer.result)
    /\ answer.PROVIDERS_DB = directory

\* C23: get_multiple_provider_options(issue, N) returns min(N, number of
\* providers of the resolved specialty) options, all of that specialty,
\* greatest (rating, experience_years) first, the option at rank i (from 0)
\* with confidence 0.9 - 0.1 * i, so that the confidence never increases
\* along the list; the directory is left in the order it had.
C23_ProviderOptions ==
    last.op = "get_multiple_provider_options" =>
       \A specialty \in {Resolved(last.health_issue)} :
          OptionsOf(last.PROVIDERS_DB, specialty, last.max_results, last.answer)

\* three providers of the specialty in the directory, the least one first,
\* and two options asked for
C23_Witness ==
    /\ last.op = "get_multiple_provider_options"
    /\ last.max_results = 2
    /\ Len(last.answer.result) = 2
    /\ Cardinality(PlacesOf(last.PROVIDERS_DB, Resolved(last.health_issue))) = 3
    /\ PlaceOfOption(last.PROVIDERS_DB, last.answer.result[1]) > 1
    /\ PlaceOfOption(last.PROVIDERS_DB, last.answer.result[2]) > 1
    /\ last.answer.result[1].confidence = 9
    /\ last.answer.result[2].confidence = 8

\* a check_availability call made in a turn, with its time preference
\* ("any" when none is given)
ChecksAvailability(call) ==
    /\ call.function = "check_availability"
    /\ call.arguments # <<>>
    /\ "provider_id" \in DOMAIN call.arguments[1]

PreferenceOf(call) ==
    IF "time_preference" \in DOMAIN call.arguments[1]
    THEN call.arguments[1]["time_preference"] ELSE "any"

\* the free slots of a provider on a date: the times its schedule lists
FreeSlotsOn(db, provider_id, date) ==
    SelectSeq(get_available_slots(db, provider_id, date), IsTime)

DatesOf(db, provider_id) ==
    {get_provider_schedule(db, provider_id)[i].date :
        i \in 1..Len(get_provider_schedule(db, provider_id))}

InBucket(slot, time_preference) ==
    CASE time_preference = "morning" -> HourOf(slot) < 12
      [] time_preference = "afternoon" -> HourOf(slot) >= 12
      [] OTHER -> TRUE

BucketOn(db, provider_id, date, time_preference) ==
    SelectSeq(FreeSlotsOn(db, provider_id, date), LAMBDA slot : InBucket(slot, time_preference))

\* date -> the free slots of the bucket, the dates without one left out
Bucketed(db, provider_id, time_preference) ==
    [date \in {d \in DatesOf(db, provider_id) :
                 BucketOn(db, provider_id, d, time_preference) # <<>>} |->
       BucketOn(db, provider_id, date, time_preference)]

ReturnsBucket(call, expected) ==
    /\ ~call.raised
    /\ IF DOMAIN expected = {}
       THEN "error" \in DOMAIN call.result
       ELSE /\ Succeeded(call)
            /\ call.result.availability = expected

\* every slot the schedule lists for the provider is a time
WellFormedSlots(db, provider_id) ==
    \A i \in 1..Len(get_provider_schedule(db, provider_id)) :
       \A k \in 1..Len(get_provider_schedule(db, provider_id)[i].available_slots) :
          IsTime(get_provider_schedule(db, provider_id)[i].available_slots[k])

\* C24: check_availability with time_preference "morning" returns exactly
\* the provider's free slots whose hour is below 12, with "afternoon" those
\* whose hour is 12 or above, with "any" or no preference all of them, a date
\* left without slots being omitted (so that the morning and the afternoon
\* results are disjoint and make up the unfiltered one).
C24_TimePreferenceFilter ==
    Turn =>
      \A i \in 1..Len(last.calls) :
         ChecksAvailability(last.calls[i]) =>
            ReturnsBucket(last.calls[i],
                          Bucketed(last.calls[i].before.db,
                                   last.calls[i].arguments[1]["provider_id"],
                                   PreferenceOf(last.calls[i])))

\* the same, for the calls made while every slot listed for the provider is
\* a time
C24_FilterOnWellFormedSlots ==
    Turn =>
      \A i \in 1..Len(last.calls) :
         (/\ ChecksAvailability(last.calls[i])
          /\ WellFormedSlots(last.calls[i].before.db, last.calls[i].arguments[1]["provider_id"])) =>
            ReturnsBucket(last.calls[i],
                          Bucketed(last.calls[i].before.db,
                                   last.calls[i].arguments[1]["provider_id"],
                                   PreferenceOf(last.calls[i])))

\* a morning check answered with the morning slot of a date that also has
\* an afternoon slot
C24_WitnessMorning ==
    /\ Turn
    /\ \E i \in 1..Len(last.calls) :
          /\ ChecksAvailability(last.calls[i])
          /\ PreferenceOf(last.calls[i]) = "morning"
          /\ Succeeded(last.calls[i])
          /\ D0115 \in DOMAIN last.calls[i].result.availability
          /\ last.calls[i].result.availability[D0115] = <<T0900>>
          /\ T1400 \in Free(last.calls[i].before.db, "p001", D0115)

\* the create_appointment calls of a turn that made an appointment
CreatesOf(turn) ==
    IF turn.op = "POST /conversation"
    THEN {i \in 1..Len(turn.calls) :
            Succeeded(turn.calls[i]) /\ turn.calls[i].function = "create_appointment"}
    ELSE {}

\* the ids of the appointments an operation made
CreatedIds(call) ==
    IF call.op = "POST /conversation"
    THEN {call.calls[i].result.appointment_id : i \in CreatesOf(call)}
    ELSE IF call.op \in {"create_appointment", "POST /appointments"}
    THEN {call.result[i].id : i \in 1..Len(call.result)}
    ELSE {}

\* the appointment a call answered is the record stored under its id
StoredAs(apps, answered) ==
    /\ get_appointment(apps, answered.appointment_id) # <<>>
    /\ get_appointment(apps, answered.appointment_id)[1].id = answered.appointment_id
    /\ get_appointment(apps, answered.appointment_id)[1].patient_name = answered.patient_name
    /\ get_appointment(apps, answered.appointment_id)[1].date = answered.date
    /\ get_appointment(apps, answered.appointment_id)[1].time = answered.time
    /\ get_appointment(apps, answered.appointment_id)[1] \in get_all_appointments(apps)

C25_Step ==
    \* a record stored before the step is returned unchanged after it
    /\ \A id \in DOMAIN APPOINTMENTS_DB :
          /\ get_appointment(APPOINTMENTS_DB', id) = <<APPOINTMENTS_DB[id]>>
          /\ APPOINTMENTS_DB[id] \in get_all_appointments(APPOINTMENTS_DB')
    \* every appointment made in the step is stored after it
    /\ last' # last =>
          \A i \in CreatesOf(last') : StoredAs(APPOINTMENTS_DB', last'.calls[i].result)
    \* an id under which none was made has no record
    /\ \A id \in 1..MaxAppointments :
          (id \notin DOMAIN APPOINTMENTS_DB /\ (last' # last => id \notin CreatedIds(last')))
          => get_appointment(APPOINTMENTS_DB', id) = <<>>

\* C25: the appointment map only grows: a record that create_appointment
\* has stored is returned unchanged by get_appointment and is among
\* get_all_appointments after every later operation (a further booking, a
\* failed booking, a reload of the schedules, a conversation turn), and
\* get_appointment of an id under which none was created returns nothing.
C25_AppointmentsAppendOnly == [][C25_Step]_vars

\* two appointments stored, the schedules reloaded since, and a turn whose
\* create_appointment failed
C25_Witness ==
    /\ Turn
    /\ reloaded
    /\ Cardinality(DOMAIN APPOINTMENTS_DB) = 2
    /\ \E i \in 1..Len(last.calls) :
          /\ last.calls[i].function = "create_appointment"
          /\ DomainError(last.calls[i])
          /\ last.calls[i].before.apps = APPOINTMENTS_DB

SlotOf(request) ==
    <<request.appointment_data.provider_id, request.appointment_data.date,
      request.appointment_data.time>>

\* the requests whose booking attempt has removed its slot
Removed(flight) ==
    {r \in DOMAIN flight : flight[r].pc \in {"save", "store"} \/ flight[r].appointment # <<>>}

\* the slots of the file as loaded, less the times the requests removed
LessRemoved(db, flight) ==
    \A provider_id \in DOMAIN FIXTURE_DB :
       \A i \in 1..Len(FIXTURE_DB[provider_id]) :
          db[provider_id][i].available_slots =
             SelectSeq(FIXTURE_DB[provider_id][i].available_slots,
                       LAMBDA time :
                          \A r \in Removed(flight) :
                             SlotOf(flight[r]) # <<provider_id, FIXTURE_DB[provider_id][i].date, time>>)

C26_Step ==
    \* between the check and the removal of a request no other request moves
    /\ \A a \in DOMAIN in_flight :
          in_flight[a].pc = "remove" =>
             \A b \in DOMAIN in_flight \ {a} : in_flight'[b] = in_flight[b]
    \* of the requests for one slot at most one removes it and gets an appointment
    /\ \A a, b \in Removed(in_flight') : SlotOf(in_flight'[a]) = SlotOf(in_flight'[b]) => a = b
    /\ \A i, j \in DOMAIN APPOINTMENTS_DB' :
          SlotKey(APPOINTMENTS_DB'[i]) = SlotKey(APPOINTMENTS_DB'[j]) => i = j
    /\ \A r \in DOMAIN in_flight' : in_flight'[r].status # 500
    \* the slot is removed once, and nothing else is
    /\ LessRemoved(SCHEDULES_DB', in_flight')

Completed(turn) == turn.op = "POST /conversation" /\ turn.status = 200

\* user, assistant, user, assistant, ...
Alternating(messages) ==
    /\ Len(messages) % 2 = 0
    /\ \A i \in 1..Len(messages) :
          messages[i].role = (IF i % 2 = 1 THEN "user" ELSE "assistant")

\* the message list of an LLM call: the system prompt, the history with the
\* user message of the turn, then tool-call and tool-result messages only
SentTo(sent, history) ==
    /\ Len(sent) >= 1 + Len(history)
    /\ sent[1].role = "system"
    /\ SubSeq(sent, 2, 1 + Len(history)) = history
    /\ \A k \in (2 + Len(history))..Len(sent) :
          \/ sent[k].role = "tool"
          \/ sent[k].role = "assistant" /\ "tool_calls" \in DOMAIN sent[k]

C27_Step ==
    (last' # last /\ Completed(last')) =>
      LET id == last'.conversation_id
          before == get_messages(conversations, id)
          after == get_messages(conversations', id)
          user == [role |-> "user", content |-> last'.request.message]
      IN  \* two messages more: the user message, then the reply
          /\ after = before \o <<user, [role |-> "assistant",
                                        content |-> last'.response[1].response]>>
          /\ \A c \in DOMAIN conversations : c # id => conversations'[c] = conversations[c]
          \* 2n messages become 2(n + 1), alternating
          /\ Alternating(before) => Alternating(after) /\ Len(after) = Len(before) + 2
          \* what the LLM was sent and the history does not hold
          /\ \A k \in 1..Len(last'.sent) : SentTo(last'.sent[k], Append(before, user))
          /\ last'.calls # <<>> =>
                /\ Len(last'.sent) = 2
                /\ Len(last'.sent[2]) = 2 + Len(before) + 2 * Len(last'.calls)
          /\ \A i \in 1..Len(after) :
                /\ after[i].role \in {"user", "assistant"}
                /\ DOMAIN after[i] = {"role", "content"}

\* C27 as stated: after a completed turn the history of the conversation
\* holds two messages per completed turn (per assistant reply), alternating
\* user, assistant.
C27_Original ==
    Completed(last) =>
       LET history == get_messages(conversations, last.conversation_id)
       IN  /\ Alternating(history)
           /\ Len(history) = 2 * Len(SelectSeq(history, LAMBDA m : m.role = "assistant"))

\* C27: a completed conversation turn appends exactly two messages to the
\* stored history, the user message and then the assistant reply, so that a
\* history of 2n alternating messages becomes one of 2(n + 1); the system
\* prompt and the tool-call and tool-result messages are in the lists sent to
\* the LLM and never in the history.
C27_TurnAppendsTwoMessages == [][C27_Step]_vars

\* the second completed turn of a conversation, with a tool call: four
\* messages stored, and tool messages sent
C27_Witness ==
    /\ Completed(last)
    /\ last.calls # <<>>
    /\ Len(get_messages(conversations, last.conversation_id)) = 4
    /\ Alternating(get_messages(conversations, last.conversation_id))
    /\ \E k \in 1..Len(last.sent[2]) : last.sent[2][k].role = "tool"

----
\* the schedules as a save to the file followed by a load gives them
SavedAndReloaded(db, file) == load_schedules_from_csv(save_schedules_to_csv(db, file, "ok").file)

\* whether every slot of the date is booked: the provider lists the date, with no slot
BookedOut(db, provider_id, date) ==
    /\ provider_id \in DOMAIN db
    /\ \E i \in 1..Len(db[provider_id]) : db[provider_id][i].date = date
    /\ get_available_slots(db, provider_id, date) = <<>>

RoundTrip(db, reloaded_db) ==
    \A provider_id \in AllProviderIds, date \in Dates :
        /\ get_available_slots(reloaded_db, provider_id, date) = get_available_slots(db, provider_id, date)
        /\ BookedOut(db, provider_id, date) =>
              /\ get_available_slots(reloaded_db, provider_id, date) = <<>>
              /\ date \notin DOMAIN get_availability_summary(reloaded_db, provider_id)
              /\ \A time \in Times : ~Bookable(reloaded_db, provider_id, date, time)

\* C28: the schedules saved to the file and loaded again have the same
\* free-slot list for every provider and date; a date whose slots are all
\* booked reloads with no free slot, is not in the availability summary and
\* no time of it can be booked.
C28_SaveLoadRoundTrip ==
    RoundTrip(SCHEDULES_DB, SavedAndReloaded(SCHEDULES_DB, CSV_FILE))

\* the round trip on the schedules in which no date is booked out
C28_RoundTripOfFreeDates ==
    (\A provider_id \in AllProviderIds, date \in Dates : ~BookedOut(SCHEDULES_DB, provider_id, date))
       => RoundTrip(SCHEDULES_DB, SavedAndReloaded(SCHEDULES_DB, CSV_FILE))

----
\* the states a conversation is found in
OrchestratorStates == {INITIAL, PROVIDER_MATCHED, AVAILABILITY_CHECKED, APPOINTMENT_CONFIRMED}

\* the states the conversation of the turn went through: before the turn,
\* after each tool call, and as stored at the end
StatesOfTurn(turn, convs) ==
    {turn.state_before} \cup {StateOf(turn.calls[i].after) : i \in 1..Len(turn.calls)}
       \cup {get_state(convs, turn.conversation_id)}

C29_Step ==
    /\ \A c \in DOMAIN conversations :
          /\ c \in DOMAIN conversations'
          /\ conversations[c].state # INITIAL => conversations'[c].state # INITIAL
    /\ \A c \in DOMAIN conversations' : conversations'[c].state \in OrchestratorStates
    /\ (last' # last /\ last'.op = "POST /conversation" /\ last'.conversation_id # 0) =>
          /\ StatesOfTurn(last', conversations') \subseteq OrchestratorStates
          /\ last'.state_before # INITIAL => INITIAL \notin StatesOfTurn(last', conversations')

\* C29: no conversation is ever in ISSUE_IDENTIFIED, before, within or after
\* a turn: every state is INITIAL, PROVIDER_MATCHED, AVAILABILITY_CHECKED or
\* APPOINTMENT_CONFIRMED; no conversation is removed, and one that has left
\* INITIAL is never in INITIAL again.
C29_NoIssueIdentified == [][C29_Step]_vars

\* a conversation made in INITIAL and left in PROVIDER_MATCHED by an earlier
\* turn goes through AVAILABILITY_CHECKED to APPOINTMENT_CONFIRMED
C29_Witness ==
    /\ Turn
    /\ last.state_before = PROVIDER_MATCHED
    /\ Len(last.calls) = 2
    /\ StateOf(last.calls[1].after) = AVAILABILITY_CHECKED
    /\ StateOf(last.calls[2].after) = APPOINTMENT_CONFIRMED
    /\ get_state(conversations, last.conversation_id) = APPOINTMENT_CONFIRMED

\* a turn leaves its new conversation in INITIAL
C29_WitnessInitial ==
    /\ Turn
    /\ last.status = 200
    /\ last.request.conversation_id = 0
    /\ last.conversation_id \in DOMAIN conversations
    /\ conversations[last.conversation_id].state = INITIAL

\* a turn takes a conversation back from AVAILABILITY_CHECKED to PROVIDER_MATCHED
C29_WitnessBack ==
    /\ Turn
    /\ last.state_before = AVAILABILITY_CHECKED
    /\ get_state(conversations, last.conversation_id) = PROVIDER_MATCHED

----
\* C30: record_audio returns after at most RATE * RECORD_SECONDS / CHUNK
\* chunks, and once speech has been detected a run of more than 100 silent
\* chunks ends the recording, by the silence and before the maximum length.
C30_RecordAudio ==
    /\ recording.pc = "returned" => recording.frames * CHUNK <= RATE * RECORD_SECONDS
    /\ (recording.started_speaking /\ recording.silent_chunks > SILENT_CHUNKS) =>
          /\ recording.pc = "returned"
          /\ recording.ended = "silence"
          /\ ~OverMaxLength(recording.frames)

\* every recording that returns has the first number of chunks over the
\* maximum length, and ends by the maximum length: no run of silent chunks
\* is ever longer than the limit, whatever was heard
C30_AlwaysFullLength ==
    /\ recording.silent_chunks <= SILENT_CHUNKS
    /\ recording.ended # "silence"
    /\ ~OverMaxLength(recording.frames - 1)
    /\ recording.pc = "returned" =>
          /\ OverMaxLength(recording.frames)
          /\ recording.ended = "max_length"

\* a record_audio call that has entered its loop returns or raises
C30_Terminates == (recording.pc = "loop") ~> (recording.pc \in {"returned", "raised"})

\* speech in the first chunk, silence in all the others: the recording
\* runs to the maximum length
C30_SilenceRunsToMaxLength ==
    /\ recording.pc = "returned"
    /\ recording.started_speaking
    /\ recording.silent_chunks = recording.frames - 1

====
